---- MODULE Spec2Model ----
(***************************************************************************)
(* Model of the chinese-number crate (src/src/lib.rs): conversion of       *)
(* primitive numbers to Chinese numerals and back.                         *)
(*                                                                         *)
(* Encodings used throughout:                                              *)
(*  - a Rust `char` is its Unicode scalar value (an integer); a `String`   *)
(*    is the sequence of its chars.  The ASCII space is 32.                *)
(*  - an unsigned number is the sequence of its base-10000 limbs, least    *)
(*    significant first, without high zero limbs (0 is <<>>).  Numbers of  *)
(*    the program reach 2^128, beyond the integers of the model checker.   *)
(*  - a signed number is [neg |-> BOOLEAN, mag |-> unsigned]; zero is      *)
(*    never negative.                                                      *)
(***************************************************************************)
EXTENDS Integers, Sequences, FiniteSets, TLC

VARIABLES call, buffer, pcall, result, overflow_checks

vars == <<call, buffer, pcall, result, overflow_checks>>

----------------------------------------------------------------------------
(* Unsigned arithmetic on limb sequences.                                  *)

RECURSIVE Norm(_)
Norm(a) ==
  IF a = <<>> THEN <<>>
  ELSE IF a[Len(a)] = 0 THEN Norm(SubSeq(a, 1, Len(a) - 1)) ELSE a

Limb(a, i) == IF i <= Len(a) THEN a[i] ELSE 0

RECURSIVE CmpFrom(_, _, _)
CmpFrom(a, b, i) ==
  IF i = 0 THEN 0
  ELSE IF a[i] < b[i] THEN -1
  ELSE IF a[i] > b[i] THEN 1
  ELSE CmpFrom(a, b, i - 1)

Cmp(a, b) ==
  IF Len(a) < Len(b) THEN -1
  ELSE IF Len(a) > Len(b) THEN 1
  ELSE CmpFrom(a, b, Len(a))

Lt(a, b) == Cmp(a, b) < 0
Le(a, b) == Cmp(a, b) <= 0
Gt(a, b) == Cmp(a, b) > 0

RECURSIVE AddFrom(_, _, _, _)
AddFrom(a, b, i, carry) ==
  IF i > Len(a) /\ i > Len(b)
  THEN IF carry = 0 THEN <<>> ELSE <<carry>>
  ELSE LET s == Limb(a, i) + Limb(b, i) + carry
       IN <<s % 10000>> \o AddFrom(a, b, i + 1, s \div 10000)

Add(a, b) == Norm(AddFrom(a, b, 1, 0))

RECURSIVE SubFrom(_, _, _, _)
SubFrom(a, b, i, borrow) ==
  IF i > Len(a) THEN <<>>
  ELSE LET d == a[i] - Limb(b, i) - borrow
       IN IF d < 0 THEN <<d + 10000>> \o SubFrom(a, b, i + 1, 1)
          ELSE <<d>> \o SubFrom(a, b, i + 1, 0)

\* a - b for a >= b
Sub(a, b) == Norm(SubFrom(a, b, 1, 0))

Nat1(n) == IF n = 0 THEN <<>> ELSE <<n>>

One == <<1>>

\* a * 10000^k
ShiftLimbs(a, k) == IF a = <<>> THEN <<>> ELSE [i \in 1..k |-> 0] \o a

RECURSIVE MulSmallFrom(_, _, _, _)
MulSmallFrom(a, m, i, carry) ==
  IF i > Len(a)
  THEN IF carry = 0 THEN <<>> ELSE <<carry>>
  ELSE LET s == a[i] * m + carry
       IN <<s % 10000>> \o MulSmallFrom(a, m, i + 1, s \div 10000)

\* a * m for 0 <= m <= 10000
MulSmall(a, m) == Norm(MulSmallFrom(a, m, 1, 0))

RECURSIVE Pow10Small(_)
Pow10Small(e) == IF e = 0 THEN 1 ELSE 10 * Pow10Small(e - 1)

\* a * 10^e
MulPow10(a, e) == ShiftLimbs(MulSmall(a, Pow10Small(e % 4)), e \div 4)

\* 10^e
Pow10(e) == MulPow10(One, e)

\* a \div 10000^k  and  a % 10000^k
HighLimbs(a, k) == IF Len(a) <= k THEN <<>> ELSE SubSeq(a, k + 1, Len(a))
LowLimbs(a, k) == Norm(IF Len(a) <= k THEN a ELSE SubSeq(a, 1, k))

\* decimal digit of a at position p (p = 0 is the ones digit)
DigitAt(a, p) == (Limb(a, (p \div 4) + 1) \div Pow10Small(p % 4)) % 10

\* number of decimal digits of a (0 for a = 0)
NumDigits(a) ==
  IF a = <<>> THEN 0
  ELSE LET t == a[Len(a)]
       IN 4 * (Len(a) - 1)
          + (IF t >= 1000 THEN 4 ELSE IF t >= 100 THEN 3 ELSE IF t >= 10 THEN 2 ELSE 1)

\* a % 10^e
ModPow10(a, e) ==
  LET k == e \div 4
      t == e % 4
  IN IF t = 0 THEN LowLimbs(a, k)
     ELSE Norm(LowLimbs(a, k) \o [i \in 1..(k - Len(LowLimbs(a, k))) |-> 0]
               \o <<Limb(a, k + 1) % Pow10Small(t)>>)

\* a * 2^k
RECURSIVE ShiftLeft(_, _)
ShiftLeft(a, k) ==
  IF k = 0 THEN a
  ELSE IF k >= 13 THEN ShiftLeft(MulSmall(a, 8192), k - 13)
  ELSE MulSmall(a, 2 ^ k)

\* a % m for a < m * 2^(k + 1), by shift and subtract
RECURSIVE ModShifted(_, _, _)
ModShifted(a, m, k) ==
  IF k < 0 THEN a
  ELSE IF Le(ShiftLeft(m, k), a) THEN ModShifted(Sub(a, ShiftLeft(m, k)), m, k - 1)
  ELSE ModShifted(a, m, k - 1)

\* a \div d for 0 < d <= 2048: limbs from the top, rem the carry
RECURSIVE DivSmallFrom(_, _, _, _)
DivSmallFrom(a, d, i, rem) ==
  IF i = 0 THEN <<>>
  ELSE LET cur == rem * 10000 + a[i]
       IN DivSmallFrom(a, d, i - 1, cur % d) \o <<cur \div d>>

DivSmall(a, d) == Norm(DivSmallFrom(a, d, Len(a), 0))

\* 2^w for the widths of the primitive types, and a % 2^w for a < 2^(2w)
TwoPow(w) ==
  CASE w = 7 -> <<128>>
    [] w = 8 -> <<256>>
    [] w = 15 -> <<2768, 3>>
    [] w = 16 -> <<5536, 6>>
    [] w = 31 -> <<3648, 4748, 21>>
    [] w = 32 -> <<7296, 9496, 42>>
    [] w = 63 -> <<5808, 5477, 368, 3372, 922>>
    [] w = 64 -> <<1616, 955, 737, 6744, 1844>>
    [] w = 127 -> <<5728, 8410, 7158, 7303, 3168, 2317, 469, 8346, 1411, 170>>
    [] w = 128 -> <<1456, 6821, 4317, 4607, 6337, 4634, 938, 6692, 2823, 340>>

ModTwoPow(a, w) == IF Lt(a, TwoPow(w)) THEN a ELSE ModShifted(a, TwoPow(w), w)

----------------------------------------------------------------------------
(* Character tables (module constants, not under src/; glyphs as the spec  *)
(* and the doc examples of lib.rs give them).                              *)

ChineseVariant == {"Traditional", "Simple"}
ChineseNumberCase == {"Upper", "Lower"}
ChineseNumberCountMethod == {"Low", "TenThousand", "Middle", "High"}

\* index of the styling: 1 Traditional/Upper, 2 Traditional/Lower,
\* 3 Simple/Upper, 4 Simple/Lower
get_chinese_number_index(variant, case) ==
  (IF variant = "Traditional" THEN 0 ELSE 2) + (IF case = "Upper" THEN 1 ELSE 2)

\* per styling: digits 0..9, then 十 百 千, then the twelve large units
\* 萬 億 兆 京 垓 秭 穰 溝 澗 正 載 極
CHINESE_NUMBERS ==
  << \* Traditional, Upper: 零壹貳參肆伍陸柒捌玖 拾佰仟 萬億兆京垓秭穰溝澗正載極
     <<38646, 22777, 36019, 21443, 32902, 20237, 38520, 26578, 25420, 29590,
       25342, 20336, 20191,
       33836, 20740, 20806, 20140, 22419, 31213, 31344, 28317, 28567, 27491, 36617, 26997>>,
     \* Traditional, Lower: 零一二三四五六七八九 十百千 萬億兆京垓秭穰溝澗正載極
     <<38646, 19968, 20108, 19977, 22235, 20116, 20845, 19971, 20843, 20061,
       21313, 30334, 21315,
       33836, 20740, 20806, 20140, 22419, 31213, 31344, 28317, 28567, 27491, 36617, 26997>>,
     \* Simple, Upper: 零壹贰参肆伍陆柒捌玖 拾佰仟 万亿兆京垓秭穰沟涧正载极
     <<38646, 22777, 36144, 21442, 32902, 20237, 38470, 26578, 25420, 29590,
       25342, 20336, 20191,
       19975, 20159, 20806, 20140, 22419, 31213, 31344, 27807, 28071, 27491, 36733, 26497>>,
     \* Simple, Lower: 零一二三四五六七八九 十百千 万亿兆京垓秭穰沟涧正载极
     <<38646, 19968, 20108, 19977, 22235, 20116, 20845, 19971, 20843, 20061,
       21313, 30334, 21315,
       19975, 20159, 20806, 20140, 22419, 31213, 31344, 27807, 28071, 27491, 36733, 26497>> >>

\* 負 (Traditional), 负 (Simple)
CHINESE_NEGATIVE_SIGN(variant) == IF variant = "Traditional" THEN <<36000>> ELSE <<36127>>

CHINESE_NEGATIVE_SIGN_CHARS == {36000, 36127}

\* 角 (tenths), 分 (hundredths)
CHINESE_NUMBERS_FRACTION_CHARS == <<{35282}, {20998}>>

\* glyph of digit d (0..9) and of unit u (1 十, 2 百, 3 千, 4 萬, 5 億, ... 15 極)
DigitGlyph(idx, d) == CHINESE_NUMBERS[idx][d + 1]
UnitGlyph(idx, u) == CHINESE_NUMBERS[idx][u + 10]

ZERO_CONNECTOR(idx) == DigitGlyph(idx, 0)

\* reverse lookup: the digit a char stands for in any styling, -1 if none
DigitChars == {DigitGlyph(idx, d) : idx \in 1..4, d \in 0..9}
DigitTable == [c \in DigitChars |-> CHOOSE d \in 0..9 : \E idx \in 1..4 : DigitGlyph(idx, d) = c]
DigitOf(c) == IF c \in DigitChars THEN DigitTable[c] ELSE -1

\* reverse lookup: the unit a char stands for in any styling, 0 if none
UnitChars == {UnitGlyph(idx, u) : idx \in 1..4, u \in 1..15}
UnitTable == [c \in UnitChars |-> CHOOSE u \in 1..15 : \E idx \in 1..4 : UnitGlyph(idx, u) = c]
UnitOf(c) == IF c \in UnitChars THEN UnitTable[c] ELSE 0

\* decimal exponent of unit u under a counting method
UnitExp(method, u) ==
  IF u <= 4 THEN u
  ELSE CASE method = "Low" -> u
         [] method = "TenThousand" -> 4 * (u - 3)
         [] method = "Middle" -> 8 * (u - 4)
         [] method = "High" -> 4 * (2 ^ (u - 4))

----------------------------------------------------------------------------
(* Digit emitter: integers below 10000 (and the 萬 of 16-bit values).      *)
(* Every emitter returns the glyphs it appends.                            *)

digit_1(idx, value) == <<DigitGlyph(idx, value)>>

\* 10 <= value < 100
digit_10(idx, value, need_one) ==
  LET msd == value \div 10
      lsd == value % 10
  IN (IF msd > 1 \/ need_one THEN digit_1(idx, msd) ELSE <<>>)
     \o <<UnitGlyph(idx, 1)>>
     \o (IF lsd > 0 THEN digit_1(idx, lsd) ELSE <<>>)

\* 100 <= value < 1000
digit_100(idx, value) ==
  LET msd == value \div 100
      rds == value % 100
  IN digit_1(idx, msd) \o <<UnitGlyph(idx, 2)>>
     \o (IF rds = 0 THEN <<>>
         ELSE IF rds < 10 THEN <<ZERO_CONNECTOR(idx)>> \o digit_1(idx, rds)
         ELSE digit_10(idx, rds, TRUE))

digit_100_compat(idx, value, need_one) ==
  IF value >= 100 THEN digit_100(idx, value)
  ELSE IF value >= 10 THEN digit_10(idx, value, need_one)
  ELSE digit_1(idx, value)

\* 1000 <= value < 10000
digit_1000(idx, value) ==
  LET msd == value \div 1000
      rds == value % 1000
  IN digit_1(idx, msd) \o <<UnitGlyph(idx, 3)>>
     \o (IF rds = 0 THEN <<>>
         ELSE (IF rds < 100 THEN <<ZERO_CONNECTOR(idx)>> ELSE <<>>)
              \o digit_100_compat(idx, rds, TRUE))

digit_1000_compat(idx, value, need_one) ==
  IF value >= 1000 THEN digit_1000(idx, value)
  ELSE digit_100_compat(idx, value, need_one)

\* 10000 <= value < 100000
digit_10000(idx, value) ==
  LET msd == value \div 10000
      rds == value % 10000
  IN digit_1(idx, msd) \o <<UnitGlyph(idx, 4)>>
     \o (IF rds = 0 THEN <<>>
         ELSE (IF rds < 1000 THEN <<ZERO_CONNECTOR(idx)>> ELSE <<>>)
              \o digit_1000_compat(idx, rds, TRUE))

digit_10000_compat(idx, value, need_one) ==
  IF value >= 10000 THEN digit_10000(idx, value)
  ELSE digit_1000_compat(idx, value, need_one)

----------------------------------------------------------------------------
(* Group cascader: large units by counting method.                         *)

\* the value a call returns instead of a string when it panics
Aborted == <<-1>>

\* a buffer whose writer panicked: what was written before the panic,
\* then -1
Panicked(buffer_) == buffer_ # <<>> /\ buffer_[Len(buffer_)] = -1

\* the String a from_* call returns: String::new() after from_*_mut wrote
\* to it, and nothing when that call panicked
Returned(s) == IF Panicked(s) THEN Aborted ELSE s

\* a push_str that replaces what the buffer holds
push_str_overwrite(buffer_, text) == IF Panicked(buffer_) THEN buffer_ ELSE text

\* buffer.push_str(text); after a panic nothing more is written, and a text
\* whose writer panics is written as far as it got
push_str(buffer_, text) == IF Panicked(buffer_) THEN buffer_ ELSE buffer_ \o text

\* a \div 10^t for 0 <= t < 4, limb by limb
DivPow10Small(a, t) ==
  IF t = 0 THEN a
  ELSE Norm([i \in 1..Len(a) |->
              (a[i] \div Pow10Small(t))
              + (Limb(a, i + 1) % Pow10Small(t)) * Pow10Small(4 - t)])

\* a \div 10^e
DivPow10(a, e) == DivPow10Small(HighLimbs(a, e \div 4), e % 4)

\* the value of a number below 10000 as an integer
ToInt(a) == IF a = <<>> THEN 0 ELSE a[1]

\* the largest unit that may stand inside the multiplier of unit u
\* (0: the multiplier is a single digit)
MultiplierTop(method, u) ==
  IF u < 4 THEN 0
  ELSE CASE method = "Low" -> 0
         [] method = "TenThousand" -> 3
         [] method = "Middle" -> IF u = 4 THEN 3 ELSE 4
         [] method = "High" -> u - 1

\* the zero connector for every decimal position left out, under every method
ZeroBefore_every_position(method, e, rds) == NumDigits(rds) < e

\* the zero connector between the glyph of a large unit of exponent e and
\* the rest rds > 0 written below it.  Under Low, where every unit is one
\* decimal position, it is written when the position just below the unit is
\* left out (九京零一亿); under the other methods when the highest nonzero
\* digit of the next group written is not its thousands digit
\* (零一百萬一千)
ZeroBefore(method, e, rds) ==
  IF method = "Low" THEN NumDigits(rds) < e ELSE NumDigits(rds) % 4 # 0

\* value below 10^UnitExp(u + 1), rendered with units up to u
RECURSIVE digit_compat(_, _, _, _, _)
digit_compat(idx, method, value, u, need_one) ==
  IF u < 4 THEN digit_1000_compat(idx, ToInt(value), need_one)
  ELSE LET e == UnitExp(method, u)
           msds == DivPow10(value, e)
           rds == ModPow10(value, e)
       IN IF msds = <<>> THEN digit_compat(idx, method, value, u - 1, need_one)
          ELSE digit_compat(idx, method, msds, MultiplierTop(method, u), need_one)
               \o <<UnitGlyph(idx, u)>>
               \o (IF rds = <<>> THEN <<>>
                   ELSE (IF ZeroBefore(method, e, rds) THEN <<ZERO_CONNECTOR(idx)>> ELSE <<>>)
                        \o digit_compat(idx, method, rds, u - 1, TRUE))

digit_compat_low_u32(idx, value) == digit_compat(idx, "Low", value, 9, FALSE)

\* what stands in a text for the writing of a value the cascader of the Low
\* method is not made for: the source does not say what is written, or
\* whether the call panics
NotInSource == <<-2>>

\* 極 = 10^15 is the last unit of the Low method, and the callers are told to
\* pass a value below 10^16 (doc comment of from_u64_mut).  from_u64_mut
\* and fraction_compat_low pass a larger one all the same
digit_compat_low_u64(idx, value) ==
  IF Lt(value, Pow10(16)) THEN digit_compat(idx, "Low", value, 15, FALSE) ELSE NotInSource

digit_compat_ten_thousand_u32(idx, value) == digit_compat(idx, "TenThousand", value, 5, FALSE)

digit_compat_ten_thousand_u64(idx, value) == digit_compat(idx, "TenThousand", value, 7, FALSE)

digit_compat_ten_thousand_u128(idx, value) == digit_compat(idx, "TenThousand", value, 12, FALSE)

digit_compat_middle_u64(idx, value) == digit_compat(idx, "Middle", value, 6, FALSE)

digit_compat_middle_u128(idx, value) == digit_compat(idx, "Middle", value, 8, FALSE)

digit_compat_high_u128(idx, value) == digit_compat(idx, "High", value, 7, FALSE)

----------------------------------------------------------------------------
(* Signed values and casts.                                                *)

Signed(neg, mag) == [mag |-> mag, neg |-> neg /\ mag # <<>>]

min_value(w) == Signed(TRUE, TwoPow(w - 1))
max_value(w) == Signed(FALSE, Sub(TwoPow(w - 1), One))
max_value_unsigned(w) == Sub(TwoPow(w), One)

\* -v in a type that holds it
Neg(v) == Signed(~v.neg, v.mag)

\* what -v is at the minimum of its type in a build with overflow checks:
\* the panic 'attempt to negate with overflow'
NegateOverflow == [mag |-> <<>>, neg |-> TRUE]

\* the negation left out
wrapping_neg_left_out(w, v) == v

\* -v computed in the signed type of width w: at the minimum a build
\* without overflow checks wraps, one with them panics
wrapping_neg(w, v) ==
  IF v = min_value(w) THEN (IF overflow_checks THEN NegateOverflow ELSE v) ELSE Neg(v)

\* v + 1
AddOne(v) == IF v.neg THEN Signed(TRUE, Sub(v.mag, One)) ELSE Signed(FALSE, Add(v.mag, One))

\* `v as uW`: the value modulo 2^w
AsUnsigned(w, v) ==
  IF v.neg
  THEN LET m == ModTwoPow(v.mag, w) IN IF m = <<>> THEN <<>> ELSE Sub(TwoPow(w), m)
  ELSE ModTwoPow(v.mag, w)

----------------------------------------------------------------------------
(* Entry points of lib.rs: from_X_mut returns the buffer after the call.   *)

\* from_u8_mut asking digit_10 for the 一 before 十
from_u8_mut_need_one(variant, case, value, buffer_) ==
  LET chinese_number_index == get_chinese_number_index(variant, case)
      v == ToInt(value)
  IN push_str(buffer_,
       IF v >= 100 THEN digit_100(chinese_number_index, v)
       ELSE IF v >= 10 THEN digit_10(chinese_number_index, v, TRUE)
       ELSE digit_1(chinese_number_index, v))

from_u8_mut(variant, case, value, buffer_) ==
  LET chinese_number_index == get_chinese_number_index(variant, case)
      v == ToInt(value)
  IN push_str(buffer_,
       IF v >= 100 THEN digit_100(chinese_number_index, v)
       ELSE IF v >= 10 THEN digit_10(chinese_number_index, v, FALSE)
       ELSE digit_1(chinese_number_index, v))

\* from_u16_mut calling digit_10000 in place of digit_10000_compat
from_u16_mut_digit_10000(variant, case, value, buffer_) ==
  LET chinese_number_index == get_chinese_number_index(variant, case)
      v == ToInt(value) + 10000 * Limb(value, 2)
  IN push_str(buffer_, digit_10000(chinese_number_index, v))

from_u16_mut(variant, case, value, buffer_) ==
  LET chinese_number_index == get_chinese_number_index(variant, case)
      v == ToInt(value) + 10000 * Limb(value, 2)
  IN push_str(buffer_, digit_10000_compat(chinese_number_index, v, FALSE))

from_u32_mut(variant, case, method, value, buffer_) ==
  LET chinese_number_index == get_chinese_number_index(variant, case)
  IN push_str(buffer_,
       IF method = "Low" THEN digit_compat_low_u32(chinese_number_index, value)
       ELSE digit_compat_ten_thousand_u32(chinese_number_index, value))

\* from_u64_mut whose Middle arm calls the TenThousand cascader
from_u64_mut_middle_as_ten_thousand(variant, case, method, value, buffer_) ==
  LET chinese_number_index == get_chinese_number_index(variant, case)
  IN push_str(buffer_,
       CASE method = "Low" -> digit_compat_low_u64(chinese_number_index, value)
         [] method \in {"TenThousand", "Middle"} ->
              digit_compat_ten_thousand_u64(chinese_number_index, value)
         [] method = "High" -> digit_compat_high_u128(chinese_number_index, value))

from_u64_mut(variant, case, method, value, buffer_) ==
  LET chinese_number_index == get_chinese_number_index(variant, case)
  IN push_str(buffer_,
       CASE method = "Low" -> digit_compat_low_u64(chinese_number_index, value)
         [] method = "TenThousand" -> digit_compat_ten_thousand_u64(chinese_number_index, value)
         [] method = "Middle" -> digit_compat_middle_u64(chinese_number_index, value)
         [] method = "High" -> digit_compat_high_u128(chinese_number_index, value))

\* from_u128_mut with the TenThousand arm of from_u64_mut (value as u64)
from_u128_mut_ten_thousand_u64(variant, case, method, value, buffer_) ==
  LET chinese_number_index == get_chinese_number_index(variant, case)
  IN push_str(buffer_,
       CASE method = "Low" ->
              IF ~Lt(value, Pow10(16)) THEN Aborted
              ELSE digit_compat_low_u64(chinese_number_index, ModTwoPow(value, 64))
         [] method = "TenThousand" ->
              digit_compat_ten_thousand_u64(chinese_number_index, ModTwoPow(value, 64))
         [] method = "Middle" -> digit_compat_middle_u128(chinese_number_index, value)
         [] method = "High" -> digit_compat_high_u128(chinese_number_index, value))

\* from_u128_mut with the Middle and High arms exchanged
from_u128_mut_middle_high_swapped(variant, case, method, value, buffer_) ==
  LET chinese_number_index == get_chinese_number_index(variant, case)
  IN push_str(buffer_,
       CASE method = "Low" ->
              IF ~Lt(value, Pow10(16)) THEN Aborted
              ELSE digit_compat_low_u64(chinese_number_index, ModTwoPow(value, 64))
         [] method = "TenThousand" -> digit_compat_ten_thousand_u128(chinese_number_index, value)
         [] method = "Middle" -> digit_compat_high_u128(chinese_number_index, value)
         [] method = "High" -> digit_compat_middle_u128(chinese_number_index, value))

\* from_u128_mut with the assert of its Low arm put before the match
from_u128_mut_assert_first(variant, case, method, value, buffer_) ==
  LET chinese_number_index == get_chinese_number_index(variant, case)
  IN push_str(buffer_,
       IF ~Lt(value, Pow10(16)) THEN Aborted
       ELSE CASE method = "Low" ->
                   digit_compat_low_u64(chinese_number_index, ModTwoPow(value, 64))
              [] method = "TenThousand" ->
                   digit_compat_ten_thousand_u128(chinese_number_index, value)
              [] method = "Middle" -> digit_compat_middle_u128(chinese_number_index, value)
              [] method = "High" -> digit_compat_high_u128(chinese_number_index, value))

from_u128_mut(variant, case, method, value, buffer_) ==
  LET chinese_number_index == get_chinese_number_index(variant, case)
  IN push_str(buffer_,
       CASE method = "Low" ->
              IF ~Lt(value, Pow10(16)) THEN Aborted
              ELSE digit_compat_low_u64(chinese_number_index, ModTwoPow(value, 64))
         [] method = "TenThousand" -> digit_compat_ten_thousand_u128(chinese_number_index, value)
         [] method = "Middle" -> digit_compat_middle_u128(chinese_number_index, value)
         [] method = "High" -> digit_compat_high_u128(chinese_number_index, value))

\* the cast to unsigned without the negation
NegatedAsUnsigned_cast_only(w, value) == AsUnsigned(w, value)

\* the magnitude a signed entry point of width w hands to the unsigned one:
\* at the minimum the negation is done in a wider type, elsewhere in width w
NegatedAsUnsigned(w, value) ==
  IF value = min_value(w) THEN AsUnsigned(w, Neg(value))
  ELSE AsUnsigned(w, wrapping_neg(w, value))

from_i8_mut(variant, case, value, buffer_) ==
  IF value.neg
  THEN from_u8_mut(variant, case, NegatedAsUnsigned(8, value),
                   push_str(buffer_, CHINESE_NEGATIVE_SIGN(variant)))
  ELSE from_u8_mut(variant, case, AsUnsigned(8, value), buffer_)

from_i16_mut(variant, case, value, buffer_) ==
  IF value.neg
  THEN from_u16_mut(variant, case, NegatedAsUnsigned(16, value),
                    push_str(buffer_, CHINESE_NEGATIVE_SIGN(variant)))
  ELSE from_u16_mut(variant, case, AsUnsigned(16, value), buffer_)

from_i32_mut(variant, case, method, value, buffer_) ==
  IF value.neg
  THEN from_u32_mut(variant, case, method, NegatedAsUnsigned(32, value),
                    push_str(buffer_, CHINESE_NEGATIVE_SIGN(variant)))
  ELSE from_u32_mut(variant, case, method, AsUnsigned(32, value), buffer_)

from_i64_mut(variant, case, method, value, buffer_) ==
  IF value.neg
  THEN from_u64_mut(variant, case, method, NegatedAsUnsigned(64, value),
                    push_str(buffer_, CHINESE_NEGATIVE_SIGN(variant)))
  ELSE from_u64_mut(variant, case, method, AsUnsigned(64, value), buffer_)

\* at the minimum: -((value + 1) as i128) as u128 + 1
from_i128_mut(variant, case, method, value, buffer_) ==
  IF value.neg
  THEN from_u128_mut(variant, case, method,
                     IF value = min_value(128)
                     THEN Add(AsUnsigned(128, Neg(AddOne(value))), One)
                     ELSE AsUnsigned(128, wrapping_neg(128, value)),
                     push_str(buffer_, CHINESE_NEGATIVE_SIGN(variant)))
  ELSE from_u128_mut(variant, case, method, AsUnsigned(128, value), buffer_)

----------------------------------------------------------------------------
(* f64 and f32.  A float is [neg, man, exp, bits]: the number              *)
(* (-1)^neg * man * 2^exp with man odd, or man = 0 and exp = 0; bits is    *)
(* the width of its type.  The values of the model stay far from the       *)
(* subnormal numbers and from infinity.                                    *)

IsEven(a) == a = <<>> \/ a[1] % 2 = 0

\* the number of bits of a
RECURSIVE BitLen(_)
BitLen(a) ==
  IF a = <<>> THEN 0
  ELSE IF Len(a) > 1 \/ a[1] >= 8192 THEN 13 + BitLen(DivSmall(a, 8192))
  ELSE 1 + BitLen(DivSmall(a, 2))

\* a \div 2^k
RECURSIVE ShiftRight(_, _)
ShiftRight(a, k) ==
  IF k = 0 THEN a
  ELSE IF k >= 11 THEN ShiftRight(DivSmall(a, 2048), k - 11)
  ELSE DivSmall(a, 2 ^ k)

\* the float man * 2^exp with the zero bits at the end of man moved to exp
RECURSIVE Binary(_, _, _, _)
Binary(bits, neg, man, exp) ==
  IF man = <<>> THEN [bits |-> bits, exp |-> 0, man |-> <<>>, neg |-> FALSE]
  ELSE IF IsEven(man) THEN Binary(bits, neg, DivSmall(man, 2), exp + 1)
  ELSE [bits |-> bits, exp |-> exp, man |-> man, neg |-> neg]

\* q * 2^e or (q + 1) * 2^e: what was cut off compares as c (-1, 0, 1) to
\* half a unit of q; to nearest, ties to even; sticky tells that the exact
\* number is above what was compared
RoundUp(bits, neg, q, e, c, sticky) ==
  Binary(bits, neg,
         IF c > 0 \/ (c = 0 /\ (sticky \/ ~IsEven(q))) THEN Add(q, One) ELSE q, e)

\* n * 2^e cut after the bits of q = n \div 2^k and rounded
RoundAt(bits, neg, n, e, k, sticky, q) ==
  RoundUp(bits, neg, q, e + k, Cmp(Sub(n, ShiftLeft(q, k)), ShiftLeft(One, k - 1)), sticky)

\* significant bits of a float type
Precision(bits) == IF bits = 64 THEN 53 ELSE 24

\* n * 2^e with the last k bits of n cut off, if k > 0
RoundBits(bits, neg, n, e, k, sticky) ==
  IF k <= 0 THEN Binary(bits, neg, n, e)
  ELSE RoundAt(bits, neg, n, e, k, sticky, ShiftRight(n, k))

\* the float of a type nearest to n * 2^e
RoundTiesEven(bits, neg, n, e, sticky) ==
  RoundBits(bits, neg, n, e, BitLen(n) - Precision(bits), sticky)

\* the quotient q of n * 2^s by 10^k as a float of a type
DecimalQuotient(bits, neg, n, k, s, q) ==
  RoundTiesEven(bits, neg, q, -s, MulSmall(q, Pow10Small(k)) # ShiftLeft(n, s))

DecimalShifted(bits, neg, n, k, s) ==
  DecimalQuotient(bits, neg, n, k, s, DivSmall(ShiftLeft(n, s), Pow10Small(k)))

\* a literal: the float of a type nearest to n / 10^k, 0 <= k <= 3
Decimal(bits, neg, n, k) == DecimalShifted(bits, neg, n, k, Precision(bits) + 2 + 4 * k)

\* the f64 literal of sign, integer part, tenths t and hundredths h
Float(neg, mag, t, h) == Decimal(64, neg, Add(MulSmall(mag, 100), Nat1(10 * t + h)), 2)

\* `result as f64` of an integer
as_f64(v) == RoundTiesEven(64, v.neg, v.mag, 0, FALSE)

\* `result as f32` of an f64
as_f32(v) == RoundTiesEven(32, v.neg, v.man, v.exp, FALSE)

\* f64::from of a u8 (n below 256) and of an f32
f64_from_u8(n) == Binary(64, FALSE, Nat1(n), 0)
f64_from_f32(v) == [v EXCEPT !.bits = 64]

f64_neg(v) == Binary(64, ~v.neg, v.man, v.exp)

\* a * b in f64 for a with a mantissa below 10000
f64_mul(a, b) ==
  RoundTiesEven(64, a.neg # b.neg, MulSmall(b.man, ToInt(a.man)), a.exp + b.exp, FALSE)

\* the sum of x * 2^e and y * 2^e as an f64
AlignedSum(a_neg, x, b_neg, y, e) ==
  IF a_neg = b_neg THEN RoundTiesEven(64, a_neg, Add(x, y), e, FALSE)
  ELSE IF Lt(x, y) THEN RoundTiesEven(64, b_neg, Sub(y, x), e, FALSE)
  ELSE RoundTiesEven(64, a_neg, Sub(x, y), e, FALSE)

AlignedAt(a, b, e) ==
  AlignedSum(a.neg, ShiftLeft(a.man, a.exp - e), b.neg, ShiftLeft(b.man, b.exp - e), e)

\* a + b and a - b in f64
f64_add(a, b) == AlignedAt(a, b, IF a.exp < b.exp THEN a.exp ELSE b.exp)

f64_sub(a, b) == f64_add(a, f64_neg(b))

\* value < 0.0
f64_lt_zero(v) == v.neg /\ v.man # <<>>

\* the integer part of a float that is not negative
Trunc(v) == IF v.exp >= 0 THEN ShiftLeft(v.man, v.exp) ELSE ShiftRight(v.man, -v.exp)

\* what is behind the point of a float that is not negative
Fract(v) ==
  IF v.exp >= 0 THEN Binary(64, FALSE, <<>>, 0)
  ELSE Binary(64, FALSE, Sub(v.man, ShiftLeft(Trunc(v), -v.exp)), v.exp)

\* the integer nearest to a float that is not negative, halves upwards
Round(v) ==
  IF v.exp >= 0 THEN Trunc(v)
  ELSE ShiftRight(Add(v.man, ShiftLeft(One, -v.exp - 1)), -v.exp)

\* the fraction digits of the spec, computed in f64:
\* t = floor(frac * 10) mod 10 and h = round(frac * 100) mod 10
Tenths(value) == ToInt(Trunc(f64_mul(f64_from_u8(10), Fract(value)))) % 10

Hundredths(value) == ToInt(Round(f64_mul(f64_from_u8(100), Fract(value)))) % 10

\* the glyph of a fraction unit: 1 角, 2 分
FractionGlyph(k) == CHOOSE c \in CHINESE_NUMBERS_FRACTION_CHARS[k] : TRUE

\* the terms fraction_compat writes for (integer, t, h), with the integer
\* part written even when it is 0 and a fraction follows
FractionTerms_with_zero(idx, method, integer, t, h) ==
  LET integer_text ==
        CASE method = "Low" -> digit_compat_low_u64(idx, integer)
          [] method = "TenThousand" -> digit_compat_ten_thousand_u128(idx, integer)
          [] method = "Middle" -> digit_compat_middle_u128(idx, integer)
          [] method = "High" -> digit_compat_high_u128(idx, integer)
      tenths == IF t > 0 THEN digit_1(idx, t) \o <<FractionGlyph(1)>> ELSE <<>>
      hundredths == IF h > 0 THEN digit_1(idx, h) \o <<FractionGlyph(2)>> ELSE <<>>
  IN push_str(integer_text, tenths \o hundredths)

\* integer part by the cascader of the method (left out when it is 0 and a
\* fraction follows), then t 角 if t > 0, then h 分 if h > 0
FractionTerms(idx, method, integer, t, h) ==
  LET integer_text ==
        IF integer = <<>> /\ (t > 0 \/ h > 0) THEN <<>>
        ELSE CASE method = "Low" -> digit_compat_low_u64(idx, integer)
               [] method = "TenThousand" -> digit_compat_ten_thousand_u128(idx, integer)
               [] method = "Middle" -> digit_compat_middle_u128(idx, integer)
               [] method = "High" -> digit_compat_high_u128(idx, integer)
      tenths == IF t > 0 THEN digit_1(idx, t) \o <<FractionGlyph(1)>> ELSE <<>>
      hundredths == IF h > 0 THEN digit_1(idx, h) \o <<FractionGlyph(2)>> ELSE <<>>
  IN push_str(integer_text, tenths \o hundredths)

\* fraction_compat_<method>(idx, value, buffer): the f64, which is not
\* negative, is split into its integer part and two fraction digits
fraction_compat(idx, method, value) ==
  FractionTerms(idx, method, Trunc(value), Tenths(value), Hundredths(value))

fraction_compat_low(idx, value) == fraction_compat(idx, "Low", value)

fraction_compat_ten_thousand(idx, value) == fraction_compat(idx, "TenThousand", value)

fraction_compat_middle(idx, value) == fraction_compat(idx, "Middle", value)

fraction_compat_high(idx, value) == fraction_compat(idx, "High", value)

\* from_f64_mut with the TenThousand arm calling fraction_compat_low
from_f64_mut_ten_thousand_as_low(variant, case, method, value, buffer_) ==
  LET chinese_number_index == get_chinese_number_index(variant, case)
      signed ==
        IF f64_lt_zero(value) THEN push_str(buffer_, CHINESE_NEGATIVE_SIGN(variant))
        ELSE buffer_
      abs == IF f64_lt_zero(value) THEN f64_neg(value) ELSE value
  IN push_str(signed,
       CASE method = "Low" -> fraction_compat_low(chinese_number_index, abs)
         [] method = "TenThousand" -> fraction_compat_low(chinese_number_index, abs)
         [] method = "Middle" -> fraction_compat_middle(chinese_number_index, abs)
         [] method = "High" -> fraction_compat_high(chinese_number_index, abs))

from_f64_mut(variant, case, method, value, buffer_) ==
  LET chinese_number_index == get_chinese_number_index(variant, case)
      signed ==
        IF f64_lt_zero(value) THEN push_str(buffer_, CHINESE_NEGATIVE_SIGN(variant))
        ELSE buffer_
      abs == IF f64_lt_zero(value) THEN f64_neg(value) ELSE value
  IN push_str(signed,
       CASE method = "Low" -> fraction_compat_low(chinese_number_index, abs)
         [] method = "TenThousand" -> fraction_compat_ten_thousand(chinese_number_index, abs)
         [] method = "Middle" -> fraction_compat_middle(chinese_number_index, abs)
         [] method = "High" -> fraction_compat_high(chinese_number_index, abs))

from_f32_mut(variant, case, method, value, buffer_) ==
  from_f64_mut(variant, case, method, f64_from_f32(value), buffer_)

\* `v as iW`: the value modulo 2^w, read in two's complement
AsSigned(w, v) ==
  LET u == AsUnsigned(w, v)
  IN IF Lt(u, TwoPow(w - 1)) THEN Signed(FALSE, u) ELSE Signed(TRUE, Sub(TwoPow(w), u))

Unsigned(mag) == Signed(FALSE, mag)

----------------------------------------------------------------------------
(* Tokenising parser (inner functions, not under src/): the numeral        *)
(* grammar of the spec, read by splitting at the largest unit.             *)

Min(S) == CHOOSE x \in S : \A y \in S : x <= y
Max(S) == CHOOSE x \in S : \A y \in S : x >= y

ParseOk(v) == [err |-> 0, ok |-> TRUE, value |-> v]
ParseErr(i) == [err |-> i, ok |-> FALSE, value |-> <<>>]

IsDigitChar(c) == DigitOf(c) >= 0

\* one digit glyph, of any styling
chinese_digit_1(c) == IF IsDigitChar(c) THEN ParseOk(Nat1(DigitOf(c))) ELSE ParseErr(0)

\* number of leading zero-connectors of cs
RECURSIVE ZeroRun(_)
ZeroRun(cs) ==
  IF cs # <<>> /\ DigitOf(cs[1]) = 0 THEN 1 + ZeroRun(Tail(cs)) ELSE 0

\* cs read as a numeral whose largest unit is at most `top`; `solo` tells
\* whether a 十 without digit may open it.  Err is the index (from 0, in cs)
\* of the first char that cannot continue a numeral.
RECURSIVE chinese_digit_compat(_, _, _, _)
chinese_digit_compat(cs, method, top, solo) ==
  LET n == Len(cs)
      bad == {i \in 1..n : ~IsDigitChar(cs[i]) /\ (UnitOf(cs[i]) = 0 \/ UnitOf(cs[i]) > top)}
  IN IF n = 0 THEN ParseErr(0)
     ELSE IF bad # {}
     THEN LET b == Min(bad)
              r == chinese_digit_compat(SubSeq(cs, 1, b - 1), method, top, solo)
          IN IF b > 1 /\ ~r.ok /\ r.err < b - 1 THEN r ELSE ParseErr(b - 1)
     ELSE LET u == Max({0} \cup {UnitOf(cs[i]) : i \in 1..n})
          IN IF u = 0
             THEN IF n = 1 THEN chinese_digit_1(cs[1]) ELSE ParseErr(1)
             ELSE LET p == Min({i \in 1..n : UnitOf(cs[i]) = u})
                      left == SubSeq(cs, 1, p - 1)
                      right == SubSeq(cs, p + 1, n)
                      z == ZeroRun(right)
                      rest == SubSeq(right, z + 1, Len(right))
                      msds == IF left = <<>> THEN ParseOk(One)
                              ELSE chinese_digit_compat(left, method, MultiplierTop(method, u), TRUE)
                      rds == IF right = <<>> THEN ParseOk(<<>>)
                             ELSE chinese_digit_compat(rest, method, u - 1, u >= 4)
                  IN IF left = <<>> /\ ~(u = 1 /\ solo) THEN ParseErr(p - 1)
                     ELSE IF ~msds.ok THEN msds
                     ELSE IF msds.value = <<>> THEN ParseErr(0)
                     ELSE IF ~rds.ok THEN ParseErr(p + z + rds.err)
                     ELSE ParseOk(Add(MulPow10(msds.value, UnitExp(method, u)), rds.value))

\* the helpers lib.rs calls, each on the chars of its look-ahead window;
\* the name gives the largest unit: 百, 萬, 秭 (Low), 億, 極 (Low), 京, 兆 (Middle)
chinese_digit_100_compat(cs) == chinese_digit_compat(cs, "TenThousand", 2, TRUE)

chinese_digit_10000_ten_thousand_compat(cs) == chinese_digit_compat(cs, "TenThousand", 4, TRUE)

chinese_digit_1000000000_low_compat(cs) == chinese_digit_compat(cs, "Low", 9, TRUE)

chinese_digit_100000000_ten_thousand_compat(cs) == chinese_digit_compat(cs, "TenThousand", 5, TRUE)

chinese_digit_1000000000000000_low_compat(cs) == chinese_digit_compat(cs, "Low", 15, TRUE)

chinese_digit_10000000000000000_ten_thousand_compat(cs) ==
  chinese_digit_compat(cs, "TenThousand", 7, TRUE)

chinese_digit_10000000000000000_middle_compat(cs) == chinese_digit_compat(cs, "Middle", 6, TRUE)

----------------------------------------------------------------------------
(* Parsers of lib.rs.                                                      *)

Zero == Unsigned(<<>>)

Ok(v) == [char_index |-> -1, tag |-> "Ok", value |-> v]
ChineseNumberEmpty == [char_index |-> -1, tag |-> "ChineseNumberEmpty", value |-> Zero]
ChineseNumberIncorrect(i) == [char_index |-> i, tag |-> "ChineseNumberIncorrect", value |-> Zero]
Overflow == [char_index |-> -1, tag |-> "Overflow", value |-> Zero]
Underflow == [char_index |-> -1, tag |-> "Underflow", value |-> Zero]
\* unimplemented!(): the call panics instead of returning
Unimplemented == [char_index |-> -1, tag |-> "Panic", value |-> Zero]

\* an Ok whose value could not be computed: the call panics
AttemptToNegateWithOverflow == [char_index |-> -1, tag |-> "Panic", value |-> Zero]

Unwind(r) ==
  IF r.tag = "Ok" /\ r.value = NegateOverflow THEN AttemptToNegateWithOverflow ELSE r

\* removal of the leading spaces only
RECURSIVE replace_spaces_leading(_)
replace_spaces_leading(s) ==
  IF s # <<>> /\ Head(s) = 32 THEN replace_spaces_leading(Tail(s)) ELSE s

\* chinese_number.as_ref().replace(" ", "")
replace_spaces(s) == SelectSeq(s, LAMBDA c : c # 32)

\* the chars handed to a helper: the one at `from` and up to n - 1 more
Window(chars, from, n) ==
  SubSeq(chars, from, IF from + n - 1 < Len(chars) THEN from + n - 1 ELSE Len(chars))

\* the unsigned arm without the look at the character after the window
UnsignedArm_no_trailing(number, rest, limit, has_limit, trailing_index, value) ==
  IF number.ok
  THEN IF has_limit /\ Gt(number.value, limit) THEN Overflow
       ELSE Ok(value)
  ELSE ChineseNumberIncorrect(number.err)

\* the unsigned arm with >= in place of > in its range check
UnsignedArm_ge(number, rest, limit, has_limit, trailing_index, value) ==
  IF number.ok
  THEN IF has_limit /\ ~Lt(number.value, limit) THEN Overflow
       ELSE IF rest THEN ChineseNumberIncorrect(trailing_index)
       ELSE Ok(value)
  ELSE ChineseNumberIncorrect(number.err)

\* match arm of an input without negative sign: `number` is the helper's
\* result on the window, `rest` tells whether chars.next() is Some after it
UnsignedArm(number, rest, limit, has_limit, trailing_index, value) ==
  IF number.ok
  THEN IF has_limit /\ Gt(number.value, limit) THEN Overflow
       ELSE IF rest THEN ChineseNumberIncorrect(trailing_index)
       ELSE Ok(value)
  ELSE ChineseNumberIncorrect(number.err)

\* the negative arm answering Overflow where the magnitude is too large
NegativeArm_overflow(number, rest, limit, has_limit, trailing_index, err_shift, value) ==
  IF number.ok
  THEN IF has_limit /\ Gt(number.value, limit) THEN Overflow
       ELSE IF rest THEN ChineseNumberIncorrect(trailing_index)
       ELSE Ok(value)
  ELSE ChineseNumberIncorrect(number.err + err_shift)

\* the negative arm returning the number without its sign
NegativeArm_sign_lost(number, rest, limit, has_limit, trailing_index, err_shift, value) ==
  IF number.ok
  THEN IF has_limit /\ Gt(number.value, limit) THEN Underflow
       ELSE IF rest THEN ChineseNumberIncorrect(trailing_index)
       ELSE Ok([value EXCEPT !.neg = FALSE])
  ELSE ChineseNumberIncorrect(number.err + err_shift)

\* match arm of an input with negative sign; err_shift is what the arm adds
\* to the helper's index
NegativeArm(number, rest, limit, has_limit, trailing_index, err_shift, value) ==
  IF number.ok
  THEN IF has_limit /\ Gt(number.value, limit) THEN Underflow
       ELSE IF rest THEN ChineseNumberIncorrect(trailing_index)
       ELSE Ok(value)
  ELSE ChineseNumberIncorrect(number.err + err_shift)

\* parse_chinese_number_to_i8 knowing the Traditional negative sign only
parse_chinese_number_to_i8_traditional_sign(chinese_number) ==
  LET chars == replace_spaces(chinese_number)
  IN IF chars = <<>> THEN ChineseNumberEmpty
     ELSE IF chars[1] = 36000
     THEN IF Len(chars) = 1 THEN ChineseNumberIncorrect(1)
          ELSE LET number == chinese_digit_100_compat(Window(chars, 2, 5))
               IN NegativeArm(number, Len(chars) > 6, Add(max_value(8).mag, One), TRUE, 6, 0,
                              AsSigned(8, Neg(AsSigned(16, Unsigned(number.value)))))
     ELSE LET number == chinese_digit_100_compat(Window(chars, 1, 5))
          IN UnsignedArm(number, Len(chars) > 5, max_value(8).mag, TRUE, 5,
                         AsSigned(8, Unsigned(number.value)))

parse_chinese_number_to_i8(chinese_number) ==
  LET chars == replace_spaces(chinese_number)
  IN IF chars = <<>> THEN ChineseNumberEmpty
     ELSE IF chars[1] \in CHINESE_NEGATIVE_SIGN_CHARS
     THEN IF Len(chars) = 1 THEN ChineseNumberIncorrect(1)
          ELSE LET number == chinese_digit_100_compat(Window(chars, 2, 5))
               IN NegativeArm(number, Len(chars) > 6, Add(max_value(8).mag, One), TRUE, 6, 0,
                              AsSigned(8, Neg(AsSigned(16, Unsigned(number.value)))))
     ELSE LET number == chinese_digit_100_compat(Window(chars, 1, 5))
          IN UnsignedArm(number, Len(chars) > 5, max_value(8).mag, TRUE, 5,
                         AsSigned(8, Unsigned(number.value)))

\* parse_chinese_number_to_u8 testing for the empty input before the spaces
\* are removed
parse_chinese_number_to_u8_empty_before_strip(chinese_number) ==
  LET chars == replace_spaces(chinese_number)
  IN IF chinese_number = <<>> THEN ChineseNumberEmpty
     ELSE LET number == chinese_digit_100_compat(Window(chars, 1, 5))
          IN UnsignedArm(number, Len(chars) > 5, max_value_unsigned(8), TRUE, 5,
                         Unsigned(AsUnsigned(8, Unsigned(number.value))))

parse_chinese_number_to_u8(chinese_number) ==
  LET chars == replace_spaces(chinese_number)
  IN IF chars = <<>> THEN ChineseNumberEmpty
     ELSE LET number == chinese_digit_100_compat(Window(chars, 1, 5))
          IN UnsignedArm(number, Len(chars) > 5, max_value_unsigned(8), TRUE, 5,
                         Unsigned(AsUnsigned(8, Unsigned(number.value))))

parse_chinese_number_to_i16(chinese_number) ==
  LET chars == replace_spaces(chinese_number)
  IN IF chars = <<>> THEN ChineseNumberEmpty
     ELSE IF chars[1] \in CHINESE_NEGATIVE_SIGN_CHARS
     THEN IF Len(chars) = 1 THEN ChineseNumberIncorrect(1)
          ELSE LET number == chinese_digit_10000_ten_thousand_compat(Window(chars, 2, 15))
               IN NegativeArm(number, Len(chars) > 16, Add(max_value(16).mag, One), TRUE, 16, 0,
                              AsSigned(16, Neg(AsSigned(32, Unsigned(number.value)))))
     ELSE LET number == chinese_digit_10000_ten_thousand_compat(Window(chars, 1, 15))
          IN UnsignedArm(number, Len(chars) > 15, max_value(16).mag, TRUE, 15,
                         AsSigned(16, Unsigned(number.value)))

parse_chinese_number_to_u16(chinese_number) ==
  LET chars == replace_spaces(chinese_number)
  IN IF chars = <<>> THEN ChineseNumberEmpty
     ELSE LET number == chinese_digit_10000_ten_thousand_compat(Window(chars, 1, 15))
          IN UnsignedArm(number, Len(chars) > 15, max_value_unsigned(16), TRUE, 15,
                         Unsigned(AsUnsigned(16, Unsigned(number.value))))

parse_chinese_number_to_i32(method, chinese_number) ==
  LET chars == replace_spaces(chinese_number)
  IN IF chars = <<>> THEN ChineseNumberEmpty
     ELSE IF chars[1] \in CHINESE_NEGATIVE_SIGN_CHARS
     THEN IF Len(chars) = 1 THEN ChineseNumberIncorrect(1)
          ELSE IF method = "Low"
          THEN LET number == chinese_digit_1000000000_low_compat(Window(chars, 2, 19))
               IN NegativeArm(number, Len(chars) > 20, Add(max_value(32).mag, One), TRUE, 20, 1,
                              AsSigned(32, Neg(AsSigned(64, Unsigned(number.value)))))
          ELSE LET number == chinese_digit_100000000_ten_thousand_compat(Window(chars, 2, 23))
               IN NegativeArm(number, Len(chars) > 24, Add(max_value(32).mag, One), TRUE, 24, 1,
                              AsSigned(32, Neg(AsSigned(64, Unsigned(number.value)))))
     ELSE IF method = "Low"
     THEN LET number == chinese_digit_1000000000_low_compat(Window(chars, 1, 19))
          IN UnsignedArm(number, Len(chars) > 19, max_value(32).mag, TRUE, 19,
                         AsSigned(32, Unsigned(number.value)))
     ELSE LET number == chinese_digit_100000000_ten_thousand_compat(Window(chars, 1, 23))
          IN UnsignedArm(number, Len(chars) > 23, max_value(32).mag, TRUE, 23,
                         AsSigned(32, Unsigned(number.value)))

parse_chinese_number_to_u32(method, chinese_number) ==
  LET chars == replace_spaces(chinese_number)
  IN IF chars = <<>> THEN ChineseNumberEmpty
     ELSE IF method = "Low"
     THEN LET number == chinese_digit_1000000000_low_compat(Window(chars, 1, 19))
          IN UnsignedArm(number, Len(chars) > 19, max_value_unsigned(32), TRUE, 19,
                         Unsigned(AsUnsigned(32, Unsigned(number.value))))
     ELSE LET number == chinese_digit_100000000_ten_thousand_compat(Window(chars, 1, 23))
          IN UnsignedArm(number, Len(chars) > 23, max_value_unsigned(32), TRUE, 23,
                         Unsigned(AsUnsigned(32, Unsigned(number.value))))

parse_chinese_number_to_i64(method, chinese_number) ==
  LET chars == replace_spaces(chinese_number)
  IN IF chars = <<>> THEN ChineseNumberEmpty
     ELSE IF chars[1] \in CHINESE_NEGATIVE_SIGN_CHARS
     THEN IF Len(chars) = 1 THEN ChineseNumberIncorrect(1)
          ELSE CASE method = "Low" ->
                 LET number == chinese_digit_1000000000000000_low_compat(Window(chars, 2, 31))
                 IN Unwind(NegativeArm(number, Len(chars) > 32, <<>>, FALSE, 32, 1,
                                       wrapping_neg(64, AsSigned(64, Unsigned(number.value)))))
               [] method = "TenThousand" ->
                 LET number == chinese_digit_10000000000000000_ten_thousand_compat(Window(chars, 2, 39))
                 IN NegativeArm(number, Len(chars) > 40, Add(max_value(64).mag, One), TRUE, 40, 1,
                                AsSigned(64, Neg(AsSigned(128, Unsigned(number.value)))))
               [] method \in {"Middle", "High"} ->
                 LET number == chinese_digit_10000000000000000_middle_compat(Window(chars, 2, 47))
                 IN NegativeArm(number, Len(chars) > 48, Add(max_value(64).mag, One), TRUE, 48, 1,
                                AsSigned(64, Neg(AsSigned(128, Unsigned(number.value)))))
     ELSE CASE method = "Low" ->
            LET number == chinese_digit_1000000000000000_low_compat(Window(chars, 1, 31))
            IN UnsignedArm(number, Len(chars) > 31, max_value(64).mag, TRUE, 31,
                           AsSigned(64, Unsigned(number.value)))
          [] method = "TenThousand" ->
            LET number == chinese_digit_10000000000000000_ten_thousand_compat(Window(chars, 1, 39))
            IN UnsignedArm(number, Len(chars) > 39, max_value(64).mag, TRUE, 39,
                           AsSigned(64, Unsigned(number.value)))
          [] method \in {"Middle", "High"} ->
            LET number == chinese_digit_10000000000000000_middle_compat(Window(chars, 1, 47))
            IN UnsignedArm(number, Len(chars) > 47, max_value(64).mag, TRUE, 47,
                           AsSigned(64, Unsigned(number.value)))

\* parse_chinese_number_to_u64 with High sharing the arm of TenThousand
parse_chinese_number_to_u64_high_as_ten_thousand(method, chinese_number) ==
  LET chars == replace_spaces(chinese_number)
  IN IF chars = <<>> THEN ChineseNumberEmpty
     ELSE CASE method = "Low" ->
            LET number == chinese_digit_1000000000000000_low_compat(Window(chars, 1, 31))
            IN UnsignedArm(number, Len(chars) > 31, max_value_unsigned(64), TRUE, 31,
                           Unsigned(number.value))
          [] method \in {"TenThousand", "High"} ->
            LET number == chinese_digit_10000000000000000_ten_thousand_compat(Window(chars, 1, 39))
            IN UnsignedArm(number, Len(chars) > 39, max_value_unsigned(64), TRUE, 39,
                           Unsigned(AsUnsigned(64, Unsigned(number.value))))
          [] method = "Middle" ->
            LET number == chinese_digit_10000000000000000_middle_compat(Window(chars, 1, 47))
            IN UnsignedArm(number, Len(chars) > 47, max_value_unsigned(64), TRUE, 47,
                           Unsigned(AsUnsigned(64, Unsigned(number.value))))

\* parse_chinese_number_to_u64 whose TenThousand arm is the Middle | High arm
parse_chinese_number_to_u64_ten_thousand_as_middle(method, chinese_number) ==
  LET chars == replace_spaces(chinese_number)
  IN IF chars = <<>> THEN ChineseNumberEmpty
     ELSE CASE method = "Low" ->
            LET number == chinese_digit_1000000000000000_low_compat(Window(chars, 1, 31))
            IN UnsignedArm(number, Len(chars) > 31, max_value_unsigned(64), TRUE, 31,
                           Unsigned(number.value))
          [] method \in {"TenThousand", "Middle", "High"} ->
            LET number == chinese_digit_10000000000000000_middle_compat(Window(chars, 1, 47))
            IN UnsignedArm(number, Len(chars) > 47, max_value_unsigned(64), TRUE, 47,
                           Unsigned(AsUnsigned(64, Unsigned(number.value))))

parse_chinese_number_to_u64(method, chinese_number) ==
  LET chars == replace_spaces(chinese_number)
  IN IF chars = <<>> THEN ChineseNumberEmpty
     ELSE CASE method = "Low" ->
            LET number == chinese_digit_1000000000000000_low_compat(Window(chars, 1, 31))
            IN UnsignedArm(number, Len(chars) > 31, max_value_unsigned(64), TRUE, 31,
                           Unsigned(number.value))
          [] method = "TenThousand" ->
            LET number == chinese_digit_10000000000000000_ten_thousand_compat(Window(chars, 1, 39))
            IN UnsignedArm(number, Len(chars) > 39, max_value_unsigned(64), TRUE, 39,
                           Unsigned(AsUnsigned(64, Unsigned(number.value))))
          [] method \in {"Middle", "High"} ->
            LET number == chinese_digit_10000000000000000_middle_compat(Window(chars, 1, 47))
            IN UnsignedArm(number, Len(chars) > 47, max_value_unsigned(64), TRUE, 47,
                           Unsigned(AsUnsigned(64, Unsigned(number.value))))

parse_chinese_number_to_i128(method, chinese_number) == Unimplemented

parse_chinese_number_to_u128(method, chinese_number) == Unimplemented

\* the literals 0.1 and 0.01
Literal_0_1 == Decimal(64, FALSE, One, 1)
Literal_0_01 == Decimal(64, FALSE, One, 2)

\* integer_number as f64 + f64::from(fd1) * 0.1 + f64::from(fd2) * 0.01, or
\* with both terms subtracted when integer_number < 0; an arm without one
\* of the terms is the sum with that digit 0
FloatTerms(integer, tenths, hundredths, negative) ==
  IF negative THEN f64_sub(f64_sub(integer, tenths), hundredths)
  ELSE f64_add(f64_add(integer, tenths), hundredths)

FloatSum(integer_number, fd1, fd2) ==
  FloatTerms(as_f64(integer_number), f64_mul(f64_from_u8(fd1), Literal_0_1),
             f64_mul(f64_from_u8(fd2), Literal_0_01), integer_number.neg)

\* .map(|result| result as f64) that loses the sign
map_as_f64_unsigned(r) ==
  IF r.tag = "Ok" THEN Ok(as_f64([r.value EXCEPT !.neg = FALSE])) ELSE r

\* .map(|result| result as f64)
map_as_f64(r) == IF r.tag = "Ok" THEN Ok(as_f64(r.value)) ELSE r

\* the arm of parse_chinese_number_to_f64 for an input with 角 or 分 at
\* integer_index > 0: integer_number is the result for the chars before the
\* last char in front of the unit
fraction_arm(chars, integer_index, integer_number) ==
  LET len == Len(chars)
      integer_chars_len_dec == integer_index - 1
      last_char == chars[integer_index]
      fd1 == chinese_digit_1(last_char)
      unit1 == chars[integer_index + 1]
      has_next == len >= integer_index + 2
      fd2 == chinese_digit_1(chars[integer_index + 2])
      has_unit2 == len >= integer_index + 3
  IN IF integer_number.tag # "Ok" THEN integer_number
     ELSE IF ~fd1.ok THEN ChineseNumberIncorrect(integer_chars_len_dec)
     ELSE IF unit1 \in CHINESE_NUMBERS_FRACTION_CHARS[1]
     THEN IF has_next
          THEN IF ~fd2.ok THEN ChineseNumberIncorrect(integer_chars_len_dec + 2)
               ELSE IF has_unit2
                       /\ chars[integer_index + 3] \in CHINESE_NUMBERS_FRACTION_CHARS[2]
               THEN Ok(FloatSum(integer_number.value, ToInt(fd1.value), ToInt(fd2.value)))
               ELSE ChineseNumberIncorrect(integer_chars_len_dec + 3)
          ELSE Ok(FloatSum(integer_number.value, ToInt(fd1.value), 0))
     ELSE IF unit1 \in CHINESE_NUMBERS_FRACTION_CHARS[2]
     THEN IF has_next THEN ChineseNumberIncorrect(integer_chars_len_dec + 2)
          ELSE Ok(FloatSum(integer_number.value, 0, ToInt(fd1.value)))
     ELSE ChineseNumberIncorrect(integer_chars_len_dec + 1)

\* the chars handed to parse_chinese_number_to_i64: all of them when there
\* is no 角 and no 分, else those before the last char in front of the unit
integer_chars(chars, integer_index) ==
  IF integer_index = Len(chars) THEN chars ELSE SubSeq(chars, 1, integer_index - 1)

integer_or_fraction(chars, integer_index, integer_number) ==
  IF integer_index = Len(chars) THEN map_as_f64(integer_number)
  ELSE fraction_arm(chars, integer_index, integer_number)

\* integer_index is the place of the first 角, else of the first 分, else len
parse_chinese_number_to_f64(method, chinese_number) ==
  LET chars == replace_spaces(chinese_number)
      len == Len(chars)
      Find(k) == {i \in 1..len : chars[i] \in CHINESE_NUMBERS_FRACTION_CHARS[k]}
      integer_index ==
        IF Find(1) # {} THEN Min(Find(1)) - 1
        ELSE IF Find(2) # {} THEN Min(Find(2)) - 1
        ELSE len
  IN IF len = 0 THEN ChineseNumberEmpty
     ELSE IF integer_index = 0 THEN ChineseNumberIncorrect(0)
     ELSE integer_or_fraction(chars, integer_index,
                              parse_chinese_number_to_i64(method, integer_chars(chars, integer_index)))

\* .map(|result| result as f32)
map_as_f32(r) == IF r.tag = "Ok" THEN Ok(as_f32(r.value)) ELSE r

parse_chinese_number_to_f32(method, chinese_number) ==
  map_as_f32(parse_chinese_number_to_f64(method, chinese_number))

\* target_pointer_width = "64": .map(|n| n as isize), .map(|n| n as usize)
parse_chinese_number_to_isize(method, chinese_number) ==
  parse_chinese_number_to_i64(method, chinese_number)

parse_chinese_number_to_usize(method, chinese_number) ==
  parse_chinese_number_to_u64(method, chinese_number)

\* impl ChineseNumberToNumber<T> for a string: the impls of i8, u8, i16 and
\* u16 take the method and do not pass it on
parse_chinese_number(fn, method, s) ==
  CASE fn = "i8" -> parse_chinese_number_to_i8(s)
    [] fn = "u8" -> parse_chinese_number_to_u8(s)
    [] fn = "i16" -> parse_chinese_number_to_i16(s)
    [] fn = "u16" -> parse_chinese_number_to_u16(s)
    [] fn = "i32" -> parse_chinese_number_to_i32(method, s)
    [] fn = "u32" -> parse_chinese_number_to_u32(method, s)
    [] fn = "i64" -> parse_chinese_number_to_i64(method, s)
    [] fn = "u64" -> parse_chinese_number_to_u64(method, s)
    [] fn = "i128" -> parse_chinese_number_to_i128(method, s)
    [] fn = "u128" -> parse_chinese_number_to_u128(method, s)
    [] fn = "isize" -> parse_chinese_number_to_isize(method, s)
    [] fn = "usize" -> parse_chinese_number_to_usize(method, s)
    [] fn = "f64" -> parse_chinese_number_to_f64(method, s)
    [] fn = "f32" -> parse_chinese_number_to_f32(method, s)

----------------------------------------------------------------------------
(* Inputs of the model.                                                    *)

\* small values are enumerated exhaustively up to MaxSmall
MaxSmall == 20

\* patterned values put a group at each limb position up to MaxShift
MaxShift == 4

SignedWidths == {8, 16, 32, 64, 128}

\* values around the borders of the primitive types and of the Low method
BorderValues ==
  UNION {{Sub(TwoPow(w - 1), One), TwoPow(w - 1), Add(TwoPow(w - 1), One),
          Sub(TwoPow(w), One)} : w \in SignedWidths}
  \cup {TwoPow(w) : w \in {8, 16, 32, 64}}
  \cup {Sub(Pow10(16), One), Pow10(16), Add(TwoPow(64), <<5>>)}

\* values of the doc examples of lib.rs
DocValues ==
  {<<123>>, <<303, 3>>, <<5678, 1234, 32>>, <<3456, 9012, 5678, 1234>>,
   <<1000, 100, 10, 1, 1001>>, <<7890, 3456, 9012, 5678, 1234, 7890, 3456, 12>>}

\* a high group over a low group, with zero groups between
PatternValues ==
  {Add(ShiftLimbs(<<g>>, k), Nat1(h)) :
     g \in {1, 12, 1001}, h \in {0, 1, 10, 1000}, k \in 1..MaxShift}

\* powers of ten that are a unit of the Middle and High methods only
LadderValues == {Pow10(24), Pow10(32)}

Magnitudes ==
  {Nat1(n) : n \in 0..MaxSmall} \cup {<<99>>, <<100>>, <<101>>, <<110>>, <<111>>, <<200>>}
  \cup BorderValues \cup DocValues \cup PatternValues \cup LadderValues

\* values every entry point is given, whatever its width
SharedValues == {<<>>, <<1>>, <<10>>, <<12>>, <<101>>}

\* an entry point of width w is given the shared values and the values that
\* do not fit the signed type of half its width
Native(w, m) == w = 8 \/ m \in SharedValues \/ ~Lt(m, TwoPow((w \div 2) - 1))

UnsignedValues(w) == {m \in Magnitudes : Lt(m, TwoPow(w)) /\ Native(w, m)}

SignedValues(w) ==
  {Signed(FALSE, m) : m \in {x \in Magnitudes : Lt(x, TwoPow(w - 1)) /\ Native(w, x)}}
  \cup {Signed(TRUE, m) : m \in {x \in Magnitudes : Le(x, TwoPow(w - 1)) /\ Native(w, x)}}

\* the decimals written as float literals: integer parts 0, 1, 12, 10^8
\* and 2^45 with tenths 0, 1, 9 and hundredths 0, 2
Decimals ==
  [mag : {<<>>, <<1>>, <<12>>, <<0, 0, 1>>, ShiftLeft(One, 45)}, t : {0, 1, 9}, h : {0, 2}]

\* the f64 of a decimal, per sign
FloatOf == [neg \in BOOLEAN |-> [d \in Decimals |-> Float(neg, d.mag, d.t, d.h)]]

\* f64 arguments: the decimals of either sign, and 0.001 and 0.004 of
\* either sign
FloatValues ==
  {FloatOf[neg][d] : neg \in BOOLEAN, d \in Decimals}
  \cup {Decimal(64, neg, Nat1(n), 3) : neg \in BOOLEAN, n \in {1, 4}}

\* f32 arguments: 0, 0.12, 0.9, 1.02, 12.1 and 16777216.0 of either sign
Float32Values ==
  {Decimal(32, neg, n, 2) :
     neg \in BOOLEAN, n \in {<<>>, <<12>>, <<90>>, <<102>>, <<1210>>, <<1600, 7721, 16>>}}

\* what a caller's buffer holds before a from_*_mut call: "A "
Prefixes == {<<65, 32>>}

\* arguments of the from_*_mut calls on a caller's buffer and of the trait
\* methods: 0, 10, 12, 101, 30303, the limits of the type, 10^16
CallerValues(w) ==
  {v \in {Signed(neg, m) : neg \in BOOLEAN,
                            m \in {<<>>, <<10>>, <<12>>, <<101>>, <<303, 3>>,
                                    Sub(TwoPow(w), One), TwoPow(w), Pow10(16)}} :
     /\ Lt(v.mag, TwoPow(w)) \/ (v.neg /\ v.mag = TwoPow(w))
     /\ v.neg => v.mag # <<>>}

\* numerals written by hand: 一兆, 一千, 一億, 九千九百九十九億, 一百二十三,
\* 十二, 一萬億, the empty string, one space, two spaces, a lone negative
\* sign, 一萬一萬, 一億一萬億, 十極
Literals ==
  {<<19968, 20806>>, <<19968, 21315>>, <<19968, 20740>>,
   <<20061, 21315, 20061, 30334, 20061, 21313, 20061, 20740>>,
   <<19968, 30334, 20108, 21313, 19977>>, <<21313, 20108>>,
   <<19968, 33836, 20740>>, <<>>, <<32>>, <<32, 32>>, <<36000>>, <<36127>>,
   <<19968, 33836, 19968, 33836>>, <<19968, 20740, 19968, 33836, 20740>>,
   <<21313, 26997>>}

\* valid numerals into which a wrong character is put: 一, 一百二十三,
\* 一百零三, 三萬零三百零三, 一億二千萬
CorruptibleNumerals ==
  {<<19968>>, <<19968, 30334, 20108, 21313, 19977>>, <<19968, 30334, 38646, 19977>>,
   <<19977, 33836, 38646, 19977, 30334, 38646, 19977>>,
   <<19968, 20740, 20108, 21315, 33836>>}

\* 'X', a character of no table
WrongChar == <<88>>

InsertAt(s, k, t) == SubSeq(s, 1, k) \o t \o SubSeq(s, k + 1, Len(s))

\* 一, a unit and 一 with zero connectors between them, n chars in all
Padded(unit, n) == <<19968, unit>> \o [i \in 1..(n - 3) |-> ZERO_CONNECTOR(2)] \o <<19968>>

\* numerals that fill the look-ahead window of a parser: 一百二十三 (5),
\* 2^31 - 1 under Low (19), 10^16 - 1 under Low (31), 17999999999999999999
\* under TenThousand (39), and 10001, 一億零一, 一兆零一 with zero
\* connectors up to 15, 23, 39 and 47 chars
WindowNumerals ==
  {<<19968, 30334, 20108, 21313, 19977>>,
   digit_compat_low_u32(2, max_value(32).mag),
   digit_compat_low_u64(2, Sub(Pow10(16), One)),
   digit_compat_ten_thousand_u64(2, <<9999, 9999, 9999, 9999, 1799>>),
   Padded(33836, 15), Padded(20740, 23), Padded(20806, 39), Padded(20806, 47)}

\* numerals with a fraction: 一二角三分 (1.23), 一二角 (1.2), 一三分 (1.03)
FractionNumerals ==
  {<<19968, 20108, 35282, 19977, 20998>>, <<19968, 20108, 35282>>,
   <<19968, 19977, 20998>>}

\* what follows a complete numeral: 'X' or 一
ExtraChars == {WrongChar, <<19968>>}

----------------------------------------------------------------------------
(* State machine: a caller formats a value into `buffer` or supplies a     *)
(* string, then parses the string.  `call` records how the string came     *)
(* about, `pcall` and `result` the parse made of it.                       *)

NoCall == [fn |-> "none", method |-> "None"]
NoResult == [char_index |-> -1, tag |-> "none", value |-> Zero]

FormatCall(fn, variant, case, method, value) ==
  [fn |-> fn, method |-> method, number_case |-> case, value |-> value, variant |-> variant]

\* the precondition of the Low method on the 64-bit, pointer-sized and float
\* entry points, stated in their doc comments: the value is below 10^16.
\* These entry points hand the value to the cascader unchecked.
\* from_u128_mut and from_i128_mut check it themselves.
LowDomain(fn, method, value) ==
  (method = "Low" /\ fn \in {"i64", "u64", "isize", "usize", "f64", "f32"}) =>
    IF fn \in {"f64", "f32"} THEN Lt(Trunc(value), Pow10(16)) ELSE Lt(value.mag, Pow10(16))

\* the integer a call hands to the cascader
IntegerOf(fn, value) == IF fn \in {"f64", "f32"} THEN Trunc(value) ELSE value.mag

\* strings the cascader of the Low method may write for a value of 10^16 or
\* more: the units cascade on and the multiplier of 極 has more than one
\* digit (十極), or the digits above 極 are lost, or nothing is written
BeyondLow(idx, value) ==
  {digit_compat(idx, "Low", value, 15, FALSE),
   digit_compat(idx, "Low", ModPow10(value, 16), 15, FALSE),
   <<>>}

\* where NotInSource stands in a text (0: nowhere)
PlaceOf(text) ==
  IF \E k \in 1..Len(text) : text[k] = NotInSource[1]
  THEN CHOOSE k \in 1..Len(text) : text[k] = NotInSource[1]
  ELSE 0

\* what a call can leave in the buffer: the text of the call when the source
\* decides it; where it does not, the cascader panics after what was
\* written before it, or it writes a string and the call goes on
Outcomes(idx, integer, text) ==
  LET k == PlaceOf(text)
  IN IF k = 0 THEN {text}
     ELSE {push_str(SubSeq(text, 1, k - 1), Aborted)}
          \cup {SubSeq(text, 1, k - 1) \o s \o SubSeq(text, k + 1, Len(text)) :
                  s \in BeyondLow(idx, integer)}

\* the build of the program has overflow checks (debug) or has none
\* (release)
Init ==
  /\ overflow_checks \in BOOLEAN
  /\ call = NoCall
  /\ buffer = <<>>
  /\ pcall = NoCall
  /\ result = NoResult

\* the string of a call made from the idle state
Formatted(c, text) ==
  /\ call' = c
  /\ buffer' = text
  /\ pcall' = NoCall
  /\ result' = NoResult
  /\ UNCHANGED overflow_checks

\* from_i8 .. from_u16: the counting method is no parameter
From_i8 ==
  /\ call = NoCall
  /\ \E variant \in ChineseVariant, case \in ChineseNumberCase, value \in SignedValues(8) :
      Formatted(FormatCall("i8", variant, case, "None", value),
                Returned(from_i8_mut(variant, case, value, <<>>)))

From_u8 ==
  /\ call = NoCall
  /\ \E variant \in ChineseVariant, case \in ChineseNumberCase, value \in UnsignedValues(8) :
      Formatted(FormatCall("u8", variant, case, "None", Unsigned(value)),
                Returned(from_u8_mut(variant, case, value, <<>>)))

From_i16 ==
  /\ call = NoCall
  /\ \E variant \in ChineseVariant, case \in ChineseNumberCase, value \in SignedValues(16) :
      Formatted(FormatCall("i16", variant, case, "None", value),
                Returned(from_i16_mut(variant, case, value, <<>>)))

From_u16 ==
  /\ call = NoCall
  /\ \E variant \in ChineseVariant, case \in ChineseNumberCase, value \in UnsignedValues(16) :
      Formatted(FormatCall("u16", variant, case, "None", Unsigned(value)),
                Returned(from_u16_mut(variant, case, value, <<>>)))

From_i32 ==
  /\ call = NoCall
  /\ \E variant \in ChineseVariant, case \in ChineseNumberCase,
       method \in ChineseNumberCountMethod, value \in SignedValues(32) :
      Formatted(FormatCall("i32", variant, case, method, value),
                Returned(from_i32_mut(variant, case, method, value, <<>>)))

From_u32 ==
  /\ call = NoCall
  /\ \E variant \in ChineseVariant, case \in ChineseNumberCase,
       method \in ChineseNumberCountMethod, value \in UnsignedValues(32) :
      Formatted(FormatCall("u32", variant, case, method, Unsigned(value)),
                Returned(from_u32_mut(variant, case, method, value, <<>>)))

From_i64 ==
  /\ call = NoCall
  /\ \E variant \in ChineseVariant, case \in ChineseNumberCase,
       method \in ChineseNumberCountMethod, value \in SignedValues(64) :
      \E text \in Outcomes(get_chinese_number_index(variant, case), IntegerOf("i64", value),
                            from_i64_mut(variant, case, method, value, <<>>)) :
        Formatted(FormatCall("i64", variant, case, method, value), Returned(text))

From_u64 ==
  /\ call = NoCall
  /\ \E variant \in ChineseVariant, case \in ChineseNumberCase,
       method \in ChineseNumberCountMethod, value \in UnsignedValues(64) :
      \E text \in Outcomes(get_chinese_number_index(variant, case), IntegerOf("u64", Unsigned(value)),
                            from_u64_mut(variant, case, method, value, <<>>)) :
        Formatted(FormatCall("u64", variant, case, method, Unsigned(value)), Returned(text))

From_i128 ==
  /\ call = NoCall
  /\ \E variant \in ChineseVariant, case \in ChineseNumberCase,
       method \in ChineseNumberCountMethod, value \in SignedValues(128) :
      Formatted(FormatCall("i128", variant, case, method, value),
                Returned(from_i128_mut(variant, case, method, value, <<>>)))

From_u128 ==
  /\ call = NoCall
  /\ \E variant \in ChineseVariant, case \in ChineseNumberCase,
       method \in ChineseNumberCountMethod, value \in UnsignedValues(128) :
      Formatted(FormatCall("u128", variant, case, method, Unsigned(value)),
                Returned(from_u128_mut(variant, case, method, value, <<>>)))

\* from_isize, from_usize on a 64-bit target forward to from_i64, from_u64
from_isize_mut(variant, case, method, value, buffer_) ==
  from_i64_mut(variant, case, method, AsSigned(64, value), buffer_)

from_usize_mut(variant, case, method, value, buffer_) ==
  from_u64_mut(variant, case, method, AsUnsigned(64, Unsigned(value)), buffer_)

\* the pointer-sized entry points are given the values from 10^15 on
From_isize ==
  /\ call = NoCall
  /\ \E variant \in ChineseVariant, case \in ChineseNumberCase,
       method \in ChineseNumberCountMethod,
       value \in {v \in SignedValues(64) : ~Lt(v.mag, Pow10(15))} :
      \E text \in Outcomes(get_chinese_number_index(variant, case), IntegerOf("isize", value),
                            from_isize_mut(variant, case, method, value, <<>>)) :
        Formatted(FormatCall("isize", variant, case, method, value), Returned(text))

From_usize ==
  /\ call = NoCall
  /\ \E variant \in ChineseVariant, case \in ChineseNumberCase,
       method \in ChineseNumberCountMethod,
       value \in {v \in UnsignedValues(64) : ~Lt(v, Pow10(15))} :
      \E text \in Outcomes(get_chinese_number_index(variant, case), IntegerOf("usize", Unsigned(value)),
                            from_usize_mut(variant, case, method, value, <<>>)) :
        Formatted(FormatCall("usize", variant, case, method, Unsigned(value)), Returned(text))

\* bits of a type
Width(fn) ==
  CASE fn \in {"i8", "u8"} -> 8
    [] fn \in {"i16", "u16"} -> 16
    [] fn \in {"i32", "u32", "f32"} -> 32
    [] fn \in {"i64", "u64", "isize", "usize", "f64"} -> 64
    [] fn \in {"i128", "u128"} -> 128

From_f64 ==
  /\ call = NoCall
  /\ \E variant \in ChineseVariant, case \in ChineseNumberCase,
       method \in ChineseNumberCountMethod, value \in FloatValues :
      \E text \in Outcomes(get_chinese_number_index(variant, case), IntegerOf("f64", value),
                            from_f64_mut(variant, case, method, value, <<>>)) :
        Formatted(FormatCall("f64", variant, case, method, value), Returned(text))

From_f32 ==
  /\ call = NoCall
  /\ \E variant \in ChineseVariant, case \in ChineseNumberCase,
       method \in ChineseNumberCountMethod, value \in Float32Values :
      \E text \in Outcomes(get_chinese_number_index(variant, case), IntegerOf("f32", value),
                            from_f32_mut(variant, case, method, value, <<>>)) :
        Formatted(FormatCall("f32", variant, case, method, value), Returned(text))

\* the from_*_mut entry point of a type
from_mut(fn, variant, case, method, value, buffer_) ==
  CASE fn = "i8" -> from_i8_mut(variant, case, value, buffer_)
    [] fn = "u8" -> from_u8_mut(variant, case, value.mag, buffer_)
    [] fn = "i16" -> from_i16_mut(variant, case, value, buffer_)
    [] fn = "u16" -> from_u16_mut(variant, case, value.mag, buffer_)
    [] fn = "i32" -> from_i32_mut(variant, case, method, value, buffer_)
    [] fn = "u32" -> from_u32_mut(variant, case, method, value.mag, buffer_)
    [] fn = "i64" -> from_i64_mut(variant, case, method, value, buffer_)
    [] fn = "u64" -> from_u64_mut(variant, case, method, value.mag, buffer_)
    [] fn = "i128" -> from_i128_mut(variant, case, method, value, buffer_)
    [] fn = "u128" -> from_u128_mut(variant, case, method, value.mag, buffer_)
    [] fn = "isize" -> from_isize_mut(variant, case, method, value, buffer_)
    [] fn = "usize" -> from_usize_mut(variant, case, method, value.mag, buffer_)
    [] fn = "f64" -> from_f64_mut(variant, case, method, value, buffer_)
    [] fn = "f32" -> from_f32_mut(variant, case, method, value, buffer_)

\* the values of a type among the caller values
ValuesOf(fn) ==
  CASE fn = "f64" ->
         {FloatOf[neg][d] :
            neg \in BOOLEAN, d \in {x \in Decimals : x.mag \in {<<>>, <<12>>} /\ x.t < 9}}
         \cup {Decimal(64, TRUE, <<4>>, 3), Float(TRUE, Pow10(16), 0, 0)}
    [] fn = "f32" -> {v \in Float32Values : Lt(v.man, <<0, 1>>)}
    [] fn \in {"i8", "i16", "i32", "i64", "i128"} -> CallerValues(Width(fn) - 1)
    [] fn = "isize" -> CallerValues(63)
    [] fn = "usize" -> {v \in CallerValues(64) : ~v.neg}
    [] OTHER -> {v \in CallerValues(Width(fn)) : ~v.neg}

MethodsOf(fn) ==
  IF fn \in {"i8", "u8", "i16", "u16"} THEN {"None"} ELSE ChineseNumberCountMethod

\* a from_*_mut entry point is called on a buffer that holds text already
FromMut ==
  /\ call = NoCall
  /\ \E fn \in {"i8", "u8", "i16", "u16", "i32", "u32", "i64", "u64", "i128", "u128",
                "isize", "usize", "f64", "f32"},
       variant \in ChineseVariant, case \in ChineseNumberCase, prefix \in Prefixes :
      \E method \in MethodsOf(fn), value \in ValuesOf(fn) :
        \E text \in Outcomes(get_chinese_number_index(variant, case), IntegerOf(fn, value),
                              from_mut(fn, variant, case, method, value, prefix)) :
          Formatted([fn |-> "mut", method |-> method, number_case |-> case,
                     prefix |-> prefix, target |-> fn, value |-> value, variant |-> variant],
                    text)

\* the trait methods with to_uppercase_low and to_lowercase_low exchanged
to_chinese_number_low_case_swapped(fn, case, method, variant, value, buffer_) ==
  LET c == IF method # "Low" THEN case ELSE IF case = "Upper" THEN "Lower" ELSE "Upper"
  IN from_mut(fn, variant, c, method, value, buffer_)

\* impl ChineseNumber for the fourteen types: to_<case>_<method>_mut(variant,
\* buffer) forwards to from_<type>_mut with the case and the method of its
\* name; the impls of i8, u8, i16 and u16 pass no method
to_chinese_number(fn, case, method, variant, value, buffer_) ==
  from_mut(fn, variant, case, method, value, buffer_)

\* what the caller holds after a trait method: the String returned, or the
\* buffer written to
Written(prefix, text) == IF prefix = <<>> THEN Returned(text) ELSE text

\* a trait method is called: to_<case>_<method>(variant) returns a String,
\* to_<case>_<method>_mut(variant, buffer) writes to a caller's buffer
TraitMethod ==
  /\ call = NoCall
  /\ \E fn \in {"i8", "u8", "i16", "u16", "i32", "u32", "i64", "u64", "i128", "u128",
                "isize", "usize", "f64", "f32"},
       variant \in ChineseVariant, case \in ChineseNumberCase,
       method \in ChineseNumberCountMethod, prefix \in Prefixes \cup {<<>>} :
      \E value \in ValuesOf(fn) :
        \E text \in Outcomes(get_chinese_number_index(variant, case), IntegerOf(fn, value),
                              to_chinese_number(fn, case, method, variant, value, prefix)) :
          Formatted([fn |-> "trait", method |-> method, number_case |-> case,
                     prefix |-> prefix, target |-> fn, value |-> value, variant |-> variant],
                    Written(prefix, text))

\* s with ASCII spaces put in: 1 in front, 2 behind, 3 after every char,
\* 4 two after the first char
RECURSIVE Interleaved(_)
Interleaved(s) == IF s = <<>> THEN <<>> ELSE <<Head(s), 32>> \o Interleaved(Tail(s))

Spaced(s, pattern) ==
  CASE pattern = 1 -> <<32>> \o s
    [] pattern = 2 -> s \o <<32>>
    [] pattern = 3 -> Interleaved(s)
    [] pattern = 4 -> <<Head(s), 32, 32>> \o Tail(s)

\* inputs that get spaces: 一百二十三, 負三萬零三百零三, 一二角三分, 十二,
\* 一X三, 負一百X
SpacedInputs ==
  {<<19968, 30334, 20108, 21313, 19977>>,
   <<36000, 19977, 33836, 38646, 19977, 30334, 38646, 19977>>,
   <<19968, 20108, 35282, 19977, 20998>>, <<21313, 20108>>,
   <<19968, 88, 19977>>, <<36000, 19968, 30334, 88>>}

\* the caller supplies a string with spaces in it
InputSpaced ==
  /\ call = NoCall
  /\ \E s \in SpacedInputs, pattern \in 1..4 :
      Formatted([fn |-> "spaced", method |-> "Any", stripped |-> s], Spaced(s, pattern))

\* the caller supplies a string written by hand
InputLiteral ==
  /\ call = NoCall
  /\ \E s \in Literals :
      Formatted([fn |-> "literal", method |-> "Any"], s)

\* the caller supplies a numeral with a wrong character at index bad_at,
\* with or without a negative sign in front
InputCorrupted ==
  /\ call = NoCall
  /\ \E s \in CorruptibleNumerals, sign \in {<<>>, <<36000>>, <<36127>>} :
      \E k \in 0..Len(s) :
        Formatted([bad_at |-> Len(sign) + k, fn |-> "corrupted", method |-> "Any"],
                  sign \o InsertAt(s, k, WrongChar))

\* the caller supplies a complete numeral followed by one more character,
\* with or without a negative sign in front
InputTrailing ==
  /\ call = NoCall
  /\ \E s \in WindowNumerals \cup FractionNumerals, sign \in {<<>>, <<36000>>},
       extra \in ExtraChars :
      Formatted([fn |-> "trailing", method |-> "Any", numeral |-> sign \o s],
                sign \o s \o extra)

\* a string supplied by the caller is parsed to any type under any method; a
\* formatted one under the method it was formatted with, to the types of the
\* entry point's width and of half that width
Parsed(target, method, trait, r) ==
  /\ ~Panicked(buffer)
  /\ pcall = NoCall
  /\ call.fn \notin {"none", "mut", "trait"}
  /\ call.method \in {"Any", "None", method}
  /\ IF call.method = "Any" THEN TRUE
     ELSE Width(target) \in {Width(call.fn), Width(call.fn) \div 2}
  /\ pcall' = [fn |-> target, method |-> method, trait |-> trait]
  /\ result' = r
  /\ UNCHANGED <<call, buffer, overflow_checks>>

\* how a parser is called on the string: by its name (FALSE) or, on a string
\* written by hand, also as "...".parse_chinese_number(method) of the trait
\* ChineseNumberToNumber<T>, whose impl forwards to the parser (TRUE)
Traits == IF call.fn = "literal" THEN BOOLEAN ELSE {FALSE}

\* parse_chinese_number_to_i8 .. _u16 take no method ("None"); the impls of
\* the trait for these types take one and do not pass it on
MethodsGiven == IF call.fn = "literal" THEN ChineseNumberCountMethod \cup {"None"} ELSE {"None"}

Parse_i8 ==
  \E method \in MethodsGiven :
    Parsed("i8", method, method # "None", parse_chinese_number_to_i8(buffer))

Parse_u8 ==
  \E method \in MethodsGiven :
    Parsed("u8", method, method # "None", parse_chinese_number_to_u8(buffer))

Parse_i16 ==
  \E method \in MethodsGiven :
    Parsed("i16", method, method # "None", parse_chinese_number_to_i16(buffer))

Parse_u16 ==
  \E method \in MethodsGiven :
    Parsed("u16", method, method # "None", parse_chinese_number_to_u16(buffer))

Parse_i32 ==
  \E method \in ChineseNumberCountMethod, trait \in Traits :
    Parsed("i32", method, trait, parse_chinese_number_to_i32(method, buffer))

Parse_u32 ==
  \E method \in ChineseNumberCountMethod, trait \in Traits :
    Parsed("u32", method, trait, parse_chinese_number_to_u32(method, buffer))

Parse_i64 ==
  \E method \in ChineseNumberCountMethod, trait \in Traits :
    Parsed("i64", method, trait, parse_chinese_number_to_i64(method, buffer))

Parse_u64 ==
  \E method \in ChineseNumberCountMethod, trait \in Traits :
    Parsed("u64", method, trait, parse_chinese_number_to_u64(method, buffer))

Parse_i128 ==
  \E method \in ChineseNumberCountMethod, trait \in Traits :
    Parsed("i128", method, trait, parse_chinese_number_to_i128(method, buffer))

Parse_u128 ==
  \E method \in ChineseNumberCountMethod, trait \in Traits :
    Parsed("u128", method, trait, parse_chinese_number_to_u128(method, buffer))

\* strings of the 64-bit and 128-bit entry points and strings supplied by
\* the caller
Parse_isize ==
  \E method \in ChineseNumberCountMethod, trait \in Traits :
    Parsed("isize", method, trait, parse_chinese_number_to_isize(method, buffer))

Parse_usize ==
  \E method \in ChineseNumberCountMethod, trait \in Traits :
    Parsed("usize", method, trait, parse_chinese_number_to_usize(method, buffer))

\* strings of the 64-bit entry points and strings supplied by the caller
Parse_f64 ==
  \E method \in ChineseNumberCountMethod, trait \in Traits :
    /\ call.fn \in {"f64", "i64", "u64", "i128", "literal", "corrupted", "spaced", "trailing"}
    /\ Parsed("f64", method, trait, parse_chinese_number_to_f64(method, buffer))

\* strings of from_f64 and from_f32 and strings supplied by the caller
Parse_f32 ==
  \E method \in ChineseNumberCountMethod, trait \in Traits :
    /\ call.fn \in {"f64", "f32", "literal", "corrupted", "spaced", "trailing"}
    /\ Parsed("f32", method, trait, parse_chinese_number_to_f32(method, buffer))

\* the string is dropped and the caller is idle again
Drop ==
  /\ call # NoCall
  /\ call' = NoCall
  /\ buffer' = <<>>
  /\ pcall' = NoCall
  /\ result' = NoResult
  /\ UNCHANGED overflow_checks

Next ==
  \/ Drop
  \/ From_i8 \/ From_u8 \/ From_i16 \/ From_u16 \/ From_i32 \/ From_u32
  \/ From_i64 \/ From_u64 \/ From_i128 \/ From_u128 \/ From_isize \/ From_usize
  \/ From_f64 \/ From_f32 \/ FromMut \/ TraitMethod
  \/ InputLiteral \/ InputCorrupted \/ InputSpaced \/ InputTrailing
  \/ Parse_i8 \/ Parse_u8 \/ Parse_i16 \/ Parse_u16 \/ Parse_i32 \/ Parse_u32
  \/ Parse_i64 \/ Parse_u64 \/ Parse_i128 \/ Parse_u128 \/ Parse_f64 \/ Parse_f32
  \/ Parse_isize \/ Parse_usize

Spec == Init /\ [][Next]_vars

----------------------------------------------------------------------------
(* Properties.                                                             *)

IntegerTypes == {"i8", "u8", "i16", "u16", "i32", "u32", "i64", "u64"}
SignedTypes == {"i8", "i16", "i32", "i64"}
FormatEntryPoints == IntegerTypes \cup {"i128", "u128", "isize", "usize"}

IsFormatCall == call.fn \in FormatEntryPoints

\* the source decides what the call writes: the value is in the domain the
\* doc comments give for the method.  For a value of 10^16 or more under Low
\* the 64-bit, pointer-sized and float entry points leave the buffer to a
\* cascader that is not made for it
Decided ==
  LowDomain(IF call.fn \in {"mut", "trait"} THEN call.target ELSE call.fn,
            call.method, call.value)
IsParsed == pcall # NoCall

\* the parser named by a type
ParseBy(fn, method, s) == parse_chinese_number(fn, method, s)

\* largest and smallest value of a type, as magnitudes
MaxOf(fn) ==
  IF fn \in SignedTypes THEN Sub(TwoPow(Width(fn) - 1), One) ELSE Sub(TwoPow(Width(fn)), One)
MinMagOf(fn) == IF fn \in SignedTypes THEN TwoPow(Width(fn) - 1) ELSE <<>>

\* C1: a value formatted by the entry point of a type (8 to 64 bits) and
\* parsed back into the same type under the same method is returned as Ok
\* with the same value, the signed minimum values included.
C1_RoundTrip ==
  (call.fn \in IntegerTypes /\ Decided /\ pcall.fn = call.fn) => result = Ok(call.value)

C1_Witness ==
  /\ call.fn = "i64" /\ pcall.fn = "i64"
  /\ call.value = min_value(64)
  /\ result.tag = "Ok" /\ result.value.neg

\* 一兆
OneZhao == <<19968, 20806>>

\* C2: 一兆 parsed to u64 is 10^6 under Low, 10^12 under TenThousand and
\* 10^16 under Middle and under High.
C2_ConventionDecides ==
  (buffer = OneZhao /\ pcall.fn = "u64") =>
    result = Ok(Unsigned(CASE pcall.method = "Low" -> <<0, 100>>
                           [] pcall.method = "TenThousand" -> <<0, 0, 0, 1>>
                           [] pcall.method = "Middle" -> <<0, 0, 0, 0, 1>>
                           [] pcall.method = "High" -> <<0, 0, 0, 0, 1>>))

C2_Witness ==
  /\ buffer = OneZhao /\ pcall.fn = "u64" /\ pcall.method = "Middle"
  /\ result.tag = "Ok" /\ result.value.mag = <<0, 0, 0, 0, 1>>

\* 123456789012345678901234567890
DocValue == <<7890, 3456, 9012, 5678, 1234, 7890, 3456, 12>>

\* the three renderings of DocValue in the doc examples of lib.rs
DocHigh ==
  <<21313, 20108, 33836, 19977, 21315, 22235, 30334, 20116, 21313, 20845, 20740, 19971,
    21315, 20843, 30334, 20061, 21313, 33836, 19968, 21315, 20108, 30334, 19977, 21313,
    22235, 20806, 20116, 21315, 20845, 30334, 19971, 21313, 20843, 33836, 20061, 21315,
    38646, 19968, 21313, 20108, 20740, 19977, 21315, 22235, 30334, 20116, 21313, 20845,
    33836, 19971, 21315, 20843, 30334, 20061, 21313>>
DocMiddle ==
  <<21313, 20108, 33836, 19977, 21315, 22235, 30334, 20116, 21313, 20845, 20140, 19971,
    21315, 20843, 30334, 20061, 21313, 33836, 19968, 21315, 20108, 30334, 19977, 21313,
    22235, 20806, 20116, 21315, 20845, 30334, 19971, 21313, 20843, 33836, 20061, 21315,
    38646, 19968, 21313, 20108, 20740, 19977, 21315, 22235, 30334, 20116, 21313, 20845,
    33836, 19971, 21315, 20843, 30334, 20061, 21313>>
DocTenThousand ==
  <<21313, 20108, 31344, 19977, 21315, 22235, 30334, 20116, 21313, 20845, 31213, 19971,
    21315, 20843, 30334, 20061, 21313, 22419, 19968, 21315, 20108, 30334, 19977, 21313,
    22235, 20140, 20116, 21315, 20845, 30334, 19971, 21313, 20843, 20806, 20061, 21315,
    38646, 19968, 21313, 20108, 20740, 19977, 21315, 22235, 30334, 20116, 21313, 20845,
    33836, 19971, 21315, 20843, 30334, 20061, 21313>>

IsDocCall(method) ==
  call = FormatCall("i128", "Traditional", "Lower", method, Unsigned(DocValue))

\* C3 as stated: DocValue formatted as i128, Lower case, Traditional, under
\* TenThousand gives the string 十二萬三千四百五十六億...
C3_AsStated == IsDocCall("TenThousand") => buffer = DocHigh

\* C3 amended: DocValue formatted as i128, Lower case, Traditional, under
\* TenThousand gives 十二穰三千四百五十六秭七千八百九十垓...
C3_TenThousandString == IsDocCall("TenThousand") => buffer = DocTenThousand

C3_Witness == IsDocCall("TenThousand") /\ Len(buffer) = Len(DocTenThousand)

\* C4: large units follow the ladder of the method: 一 followed by one unit
\* glyph is 10^8, 10^12, 10^16 for 億 兆 京 under TenThousand, 10^8, 10^16,
\* 10^24 under Middle and 10^8, 10^16, 10^32 under High; and DocValue has the
\* three different renderings of the doc examples.
C4_Ladder ==
  /\ \A method \in {"High", "Middle", "TenThousand"} :
       IsDocCall(method) =>
         buffer = (CASE method = "High" -> DocHigh
                     [] method = "Middle" -> DocMiddle
                     [] method = "TenThousand" -> DocTenThousand)
  /\ (call.fn = "u128" /\ call.variant = "Traditional" /\ call.number_case = "Lower") =>
       /\ buffer = <<19968, 20740>> <=>
            \/ call.value.mag = <<0, 10>> /\ call.method = "Low"
            \/ call.value.mag = <<0, 0, 1>> /\ call.method \in {"TenThousand", "Middle", "High"}
       /\ buffer = <<19968, 20806>> <=>
            \/ call.value.mag = <<0, 100>> /\ call.method = "Low"
            \/ call.value.mag = <<0, 0, 0, 1>> /\ call.method = "TenThousand"
            \/ call.value.mag = <<0, 0, 0, 0, 1>> /\ call.method \in {"Middle", "High"}
       /\ buffer = <<19968, 20140>> <=>
            \/ call.value.mag = <<0, 0, 0, 0, 1>> /\ call.method = "TenThousand"
            \/ call.value.mag = <<0, 0, 0, 0, 0, 0, 1>> /\ call.method = "Middle"
            \/ call.value.mag = <<0, 0, 0, 0, 0, 0, 0, 0, 1>> /\ call.method = "High"

C4_Witness == IsDocCall("Middle") /\ buffer = DocMiddle

\* the unsigned entry point of the width of a signed one
UnsignedFormat(fn, variant, case, method, mag) ==
  CASE fn = "i8" -> from_u8_mut(variant, case, mag, <<>>)
    [] fn = "i16" -> from_u16_mut(variant, case, mag, <<>>)
    [] fn = "i32" -> from_u32_mut(variant, case, method, mag, <<>>)
    [] fn = "i64" -> from_u64_mut(variant, case, method, mag, <<>>)
    [] fn = "i128" -> from_u128_mut(variant, case, method, mag, <<>>)

\* C5: a signed entry point writes, for n < 0, the negative sign of the
\* variant (負 or 负) followed by the unsigned format of |n|, |n| being 2^(W-1)
\* at the minimum; for n >= 0 it writes the unsigned format and no sign.
C5_SignedFormat ==
  (call.fn \in {"i8", "i16", "i32", "i64", "i128"} /\ Decided) =>
    LET u == UnsignedFormat(call.fn, call.variant, call.number_case, call.method, call.value.mag)
    IN IF u = Aborted THEN buffer = Aborted
       ELSE IF call.value.neg
       THEN buffer = <<IF call.variant = "Traditional" THEN 36000 ELSE 36127>> \o u
       ELSE buffer = u /\ buffer[1] \notin {36000, 36127}

C5_Witness ==
  /\ call.fn = "i128" /\ call.value.neg /\ call.value.mag = TwoPow(127)
  /\ call.variant = "Simple" /\ buffer # Aborted /\ buffer[1] = 36127

\* C6: for a type of 8 to 64 bits, a formatted numeral without sign parses to
\* Ok(MAX) when its value is MAX and to Overflow when it is MAX + 1; for a
\* signed type a negative numeral parses to Ok(MIN) at magnitude |MIN| and to
\* Underflow at |MIN| + 1.
C6_RangeBoundary ==
  (IsFormatCall /\ Decided /\ pcall.fn \in IntegerTypes) =>
    /\ (~call.value.neg /\ call.value.mag = MaxOf(pcall.fn)) => result = Ok(call.value)
    /\ (~call.value.neg /\ call.value.mag = Add(MaxOf(pcall.fn), One)) => result = Overflow
    /\ (call.value.neg /\ pcall.fn \in SignedTypes /\ call.value.mag = MinMagOf(pcall.fn)) =>
         result = Ok(call.value)
    /\ (call.value.neg /\ pcall.fn \in SignedTypes
        /\ call.value.mag = Add(MinMagOf(pcall.fn), One)) => result = Underflow

C6_Witness ==
  /\ call.fn = "i128" /\ pcall.fn = "i64" /\ pcall.method = "High"
  /\ call.value.neg /\ call.value.mag = Add(TwoPow(63), One)
  /\ result = Underflow

\* C7 as claimed: every parse, to i128 and u128 too, returns a Result and
\* never aborts.
C7_ParseReturns == IsParsed => result.tag # "Panic"

\* the input without its wrong character
Uncorrupted(s) == SelectSeq(s, LAMBDA c : c # WrongChar[1])

\* C8 as claimed: when a signed parser rejects an input that starts with a
\* negative sign because of the wrong character at index k (the sign being
\* index 0), the char_index it reports is k.
C8_SignedCharIndex ==
  (/\ call.fn = "corrupted" /\ buffer[1] \in CHINESE_NEGATIVE_SIGN_CHARS
   /\ pcall.fn \in SignedTypes
   /\ result.tag = "ChineseNumberIncorrect"
   /\ ParseBy(pcall.fn, pcall.method, Uncorrupted(buffer)).tag # "ChineseNumberIncorrect")
  => result.char_index = call.bad_at

\* C9 as claimed: a formatted numeral whose value is above the maximum of
\* the type parsed to gives Overflow, and a negative one below the minimum of
\* a signed type gives Underflow, never ChineseNumberIncorrect.
C9_OverflowAlways ==
  (IsFormatCall /\ Decided /\ pcall.fn \in IntegerTypes) =>
    /\ (~call.value.neg /\ Gt(call.value.mag, MaxOf(pcall.fn))) => result = Overflow
    /\ (call.value.neg /\ pcall.fn \in SignedTypes /\ Gt(call.value.mag, MinMagOf(pcall.fn))) =>
         result = Underflow

\* 10^16
LowLimit == <<0, 0, 0, 0, 1>>

\* C10, as far as lib.rs decides it: a call aborts only under Low with a
\* magnitude of 10^16 or more, and from_u128 and from_i128 abort on every
\* such call (the assert of from_u128_mut).  Whether the 64-bit and
\* pointer-sized entry points abort there is decided by the cascader they
\* hand the value to, which is not in the source: both outcomes are open.
C10_LowAborts ==
  IsFormatCall =>
    /\ buffer = Aborted => (call.method = "Low" /\ ~Lt(call.value.mag, LowLimit))
    /\ (call.fn \in {"i128", "u128"} /\ call.method = "Low" /\ ~Lt(call.value.mag, LowLimit)) =>
         buffer = Aborted

C10_Witness ==
  /\ call.fn = "i128" /\ call.method = "Low" /\ call.value = min_value(128)
  /\ buffer = Aborted

\* from_u64 under Low with 10^16: the call that aborts and a call that
\* returns a string
C10_OpenAborted ==
  /\ call.fn = "u64" /\ call.method = "Low" /\ call.value.mag = LowLimit /\ buffer = Aborted

C10_OpenReturned ==
  /\ call.fn = "u64" /\ call.method = "Low" /\ call.value.mag = LowLimit /\ buffer # Aborted

FloatTypes == {"f64", "f32"}

\* the input holds nothing but ASCII spaces
OnlySpaces(s) == \A i \in 1..Len(s) : s[i] = 32

\* C11: an input with no characters left after the spaces are stripped is
\* answered with ChineseNumberEmpty by every parser (u8 to i64, f64, f32,
\* every method), and the integer parsers answer ChineseNumberEmpty for no
\* other input.
C11_EmptyInput ==
  (IsParsed /\ pcall.fn \in IntegerTypes \cup FloatTypes) =>
    /\ OnlySpaces(buffer) => result.tag = "ChineseNumberEmpty"
    /\ (pcall.fn \in IntegerTypes /\ result.tag = "ChineseNumberEmpty") => OnlySpaces(buffer)

C11_Witness ==
  /\ buffer = <<32, 32>> /\ pcall.fn = "u8"
  /\ result.tag = "ChineseNumberEmpty"

\* 零, the same glyph in the four stylings
ZeroChar == ZERO_CONNECTOR(1)

NoZeroPair(s) == \A i \in 1..(Len(s) - 1) : ~(s[i] = ZeroChar /\ s[i + 1] = ZeroChar)

\* C12 as stated: for every integer n, 0 included, the formatted string has
\* no two adjacent 零 and its last glyph is not 零.
C12_AsStated ==
  (IsFormatCall /\ Decided /\ buffer # Aborted) =>
    NoZeroPair(buffer) /\ buffer[Len(buffer)] # ZeroChar

\* C12 amended: the formatted string of an integer n has no two adjacent 零;
\* its last glyph is 零 only for n = 0, whose string is the single glyph 零.
C12_ZeroCanonical ==
  (IsFormatCall /\ Decided /\ buffer # Aborted) =>
    /\ NoZeroPair(buffer)
    /\ IF call.value.mag = <<>> THEN buffer = <<ZeroChar>>
       ELSE buffer[Len(buffer)] # ZeroChar

C12_Witness ==
  /\ call.fn = "u16" /\ call.value.mag = <<303, 3>>
  /\ buffer # Aborted /\ \E i \in 1..Len(buffer) : buffer[i] = ZeroChar

\* the glyph of another styling for the same digit, unit or sign
SameToken(c, idx) ==
  IF c \in DigitChars THEN DigitGlyph(idx, DigitOf(c))
  ELSE IF c \in UnitChars THEN UnitGlyph(idx, UnitOf(c))
  ELSE IF c \in CHINESE_NEGATIVE_SIGN_CHARS THEN (IF idx <= 2 THEN 36000 ELSE 36127)
  ELSE c

\* the numeral rewritten in a styling: every glyph (every == 1) or every
\* second glyph (every == 2)
Restyled(s, idx, every) ==
  [i \in 1..Len(s) |-> IF i % every = 0 THEN SameToken(s[i], idx) ELSE s[i]]

\* C13: parsing does not depend on the styling: a formatted numeral rewritten
\* glyph by glyph in another styling (Traditional or Simplified, Informal or
\* Formal, the negative sign included), wholly or in a mixture, parses to the
\* same result.
C13_StylingFree ==
  (IsFormatCall /\ buffer # Aborted /\ pcall.fn = call.fn /\ pcall.fn \in IntegerTypes) =>
    \A idx \in 1..4, every \in 1..2 :
      ParseBy(pcall.fn, pcall.method, Restyled(buffer, idx, every)) = result

C13_Witness ==
  /\ call.fn = "i8" /\ pcall.fn = "i8" /\ call.variant = "Simple" /\ call.number_case = "Lower"
  /\ call.value.neg /\ call.value.mag = <<128>>
  /\ result.tag = "Ok"
  /\ Restyled(buffer, 1, 1) # buffer

\* C14: the method has no effect on 8-bit and 16-bit formatting: the trait
\* methods of i8, u8, i16 and u16 give, for every method in their name, the
\* string of the from_* entry point of the type, which takes no method,
\* returned or written behind what the caller's buffer holds; a 16-bit value
\* of 10000 or more is written with 萬.
C14_MethodIgnored ==
  (call.fn = "trait" /\ call.target \in {"i8", "u8", "i16", "u16"}) =>
    /\ buffer = call.prefix \o from_mut(call.target, call.variant, call.number_case, "None",
                                        call.value, <<>>)
    /\ \A method \in ChineseNumberCountMethod :
         buffer = to_chinese_number(call.target, call.number_case, method, call.variant,
                                    call.value, call.prefix)
    /\ Gt(call.value.mag, <<9999>>) => \E i \in 1..Len(buffer) : buffer[i] \in {33836, 19975}

C14_Witness ==
  /\ call.fn = "trait" /\ call.target = "u16" /\ call.method = "Low" /\ call.prefix = <<>>
  /\ call.value.mag = <<5535, 6>>
  /\ \E i \in 1..Len(buffer) : buffer[i] \in {33836, 19975}

\* t 角 and h 分 as the claims write them
FractionText(idx, t, h) ==
  (IF t > 0 THEN <<DigitGlyph(idx, t), 35282>> ELSE <<>>)
  \o (IF h > 0 THEN <<DigitGlyph(idx, h), 20998>> ELSE <<>>)

\* the f64 a float entry point is called with or widens its argument to
FloatArgument == IF call.fn = "f32" THEN f64_from_f32(call.value) ELSE call.value

\* a float entry point was called with a value that is not negative
IsFloatCall == call.fn \in {"f64", "f32"} /\ Decided /\ ~call.value.neg /\ buffer # Aborted

\* integer part, tenths and hundredths of the value written
IntegerPart == Trunc(FloatArgument)
TenthsDigit == Tenths(FloatArgument)
HundredthsDigit == Hundredths(FloatArgument)

\* C15 as stated: a non-negative value with integer part n, tenths t and
\* hundredths h is written as the unsigned format of n, then the digit of t
\* and 角 if t > 0, then the digit of h and 分 if h > 0.
C15_AsStated ==
  IsFloatCall =>
    buffer = from_u128_mut(call.variant, call.number_case, call.method, IntegerPart, <<>>)
             \o FractionText(get_chinese_number_index(call.variant, call.number_case),
                             TenthsDigit, HundredthsDigit)

\* C15 amended: the same, except that for n = 0 with t > 0 or h > 0 the
\* format of n is left out.
C15_FractionFormat ==
  IsFloatCall =>
    buffer = (IF IntegerPart = <<>> /\ (TenthsDigit > 0 \/ HundredthsDigit > 0) THEN <<>>
              ELSE from_u128_mut(call.variant, call.number_case, call.method,
                                 IntegerPart, <<>>))
             \o FractionText(get_chinese_number_index(call.variant, call.number_case),
                             TenthsDigit, HundredthsDigit)

\* 100000000.92 is written 一億九角二分
C15_Witness ==
  /\ IsFloatCall /\ call.method = "TenThousand"
  /\ call.variant = "Traditional" /\ call.number_case = "Lower"
  /\ call.value = Float(FALSE, <<0, 0, 1>>, 9, 2)
  /\ buffer = <<19968, 20740, 20061, 35282, 20108, 20998>>

\* C16: a value with integer part 0 and a fraction is written as the
\* fraction alone: 0.12 (Lower, TenThousand, Traditional) is 一角二分.
C16_FractionAlone ==
  (IsFloatCall /\ IntegerPart = <<>> /\ (TenthsDigit > 0 \/ HundredthsDigit > 0)) =>
    /\ buffer[1] # ZeroChar
    /\ Len(buffer) = (IF TenthsDigit > 0 THEN 2 ELSE 0) + (IF HundredthsDigit > 0 THEN 2 ELSE 0)
    /\ buffer = FractionText(get_chinese_number_index(call.variant, call.number_case),
                             TenthsDigit, HundredthsDigit)
    /\ (/\ call.value = Float(FALSE, <<>>, 1, 2)
        /\ call.variant = "Traditional" /\ call.number_case = "Lower"
        /\ call.method = "TenThousand") => buffer = <<19968, 35282, 20108, 20998>>

C16_Witness ==
  /\ IsFloatCall /\ call.value = Float(FALSE, <<>>, 1, 2)
  /\ call.variant = "Traditional" /\ call.number_case = "Lower" /\ call.method = "TenThousand"
  /\ buffer = <<19968, 35282, 20108, 20998>>

\* C17 as claimed: a value formatted by from_f64 and parsed by
\* parse_chinese_number_to_f64 under the same method comes back with its
\* sign, its integer part, its tenths and its hundredths, integer part 0
\* included, positive or negative.
C17_FractionRoundTrip ==
  (call.fn = "f64" /\ Decided /\ pcall.fn = "f64" /\ buffer # Aborted) =>
    /\ result.tag = "Ok"
    /\ f64_lt_zero(result.value) = f64_lt_zero(call.value)
    /\ Trunc(result.value) = Trunc(call.value)
    /\ Tenths(result.value) = Tenths(call.value)
    /\ Hundredths(result.value) = Hundredths(call.value)

\* C18: the buffer variants only append: after from_X_mut the buffer holds
\* what it held before, followed by the string from_X returns; from_X is
\* from_X_mut on an empty buffer.  A call that aborts leaves what the buffer
\* held before in front of what it wrote until then.
C18_AppendOnly ==
  (call.fn = "mut" /\ Decided) =>
    LET text == from_mut(call.target, call.variant, call.number_case, call.method,
                         call.value, <<>>)
    IN /\ Len(buffer) >= Len(call.prefix)
       /\ SubSeq(buffer, 1, Len(call.prefix)) = call.prefix
       /\ SubSeq(buffer, Len(call.prefix) + 1, Len(buffer)) = text
       /\ Panicked(buffer) <=> Panicked(text)

C18_Witness ==
  /\ call.fn = "mut" /\ call.target = "i8" /\ call.value.neg /\ call.value.mag = <<128>>
  /\ ~Panicked(buffer) /\ Len(buffer) > Len(call.prefix) + 1
  /\ buffer[1] = 65 /\ buffer[3] \in CHINESE_NEGATIVE_SIGN_CHARS

\* from_i128_mut under Low with -10^16: the sign is written behind "A "
\* before the call aborts
C18_WitnessAborted ==
  /\ call.fn = "mut" /\ call.target = "i128" /\ call.method = "Low"
  /\ call.value = Signed(TRUE, Pow10(16)) /\ call.variant = "Traditional"
  /\ buffer = <<65, 32, 36000, -1>>

\* C19: parsing ignores ASCII spaces wherever they stand: an input with
\* spaces in front, behind or between its characters gets the result of the
\* input without them, the char_index of an error included.
C19_SpacesIgnored ==
  (call.fn = "spaced" /\ IsParsed) =>
    result = ParseBy(pcall.fn, pcall.method, call.stripped)

C19_Witness ==
  /\ call.fn = "spaced" /\ pcall.fn = "u16"
  /\ call.stripped = <<19968, 88, 19977>> /\ buffer = <<19968, 32, 32, 88, 19977>>
  /\ result.tag = "ChineseNumberIncorrect" /\ result.char_index = 1

\* 十 and 拾
TenChars == {21313, 25342}

\* C20 as claimed: in Lower case the 一 before 十 is left out exactly when
\* the tens digit 1 is the first digit of the number (十二, 十二萬) and is
\* written in every other place (九千零一十二, 一百一十); in Upper case it
\* is always written (壹拾貳, 壹拾).
C20_LeadingOne ==
  (IsFormatCall /\ Decided /\ buffer # Aborted) =>
    LET first == IF call.value.neg THEN 2 ELSE 1
        led(i) == i > first /\ buffer[i - 1] \in DigitChars /\ buffer[i - 1] # ZeroChar
    IN \A i \in 1..Len(buffer) :
         buffer[i] \in TenChars =>
           IF call.number_case = "Upper" THEN led(i)
           ELSE IF i = first THEN TRUE
           ELSE led(i) /\ ~(i = first + 1 /\ buffer[first] = 19968)

----------------------------------------------------------------------------
(* Zero connectors written by the formatters.                              *)

\* the digits and units written for the magnitude: the buffer less its sign
Body == IF call.value.neg THEN Tail(buffer) ELSE buffer

\* an integer was formatted and the call returned
IsGroupedCall == IsFormatCall /\ Decided /\ buffer # Aborted

\* the method that gives the units of the string their values; the 8- and
\* 16-bit entry points write 萬 = 10^4
GroupMethod == IF call.method = "None" THEN "TenThousand" ELSE call.method

\* the unit whose multiplier holds position i of s: the next unit to the
\* right that is a large unit and larger than the one at i (0 for none).
\* For a digit or 十 百 千 it is the unit that closes the group.
Enclosing(s, i) ==
  LET least == IF UnitOf(s[i]) > 3 THEN UnitOf(s[i]) ELSE 3
      later == {j \in (i + 1)..Len(s) : UnitOf(s[j]) > least}
  IN IF later = {} THEN 0 ELSE CHOOSE j \in later : \A k \in later : j <= k

\* decimal exponent of the unit glyph at position i of s: its own, times the
\* units it is a multiplier of
RECURSIVE ExpAt(_, _)
ExpAt(s, i) ==
  IF i = 0 THEN 0 ELSE UnitExp(GroupMethod, UnitOf(s[i])) + ExpAt(s, Enclosing(s, i))

\* the digits of the value below the unit at position i of s, down to the
\* unit that encloses it
BelowUnit(s, i) ==
  DivPow10(ModPow10(call.value.mag, ExpAt(s, i)), ExpAt(s, Enclosing(s, i)))

ZeroFollows(s, i) == i < Len(s) /\ s[i + 1] = ZeroChar

\* the unit at position i of s closes a group of four digits
ClosesGroup(s, i) == UnitOf(s[i]) >= 4 /\ GroupMethod # "Low"

\* C21: a 零 is written only straight after a unit glyph and before a
\* nonzero digit.  After 十 百 千, and after every unit of Low (one decimal
\* position each), exactly one is written when the digit just below the
\* unit is zero and a lower one is not (一千零一), none between adjacent
\* nonzero digits.  After the large unit of a group of four digits, under
\* TenThousand, Middle and High and for 16-bit values, exactly one is
\* written when the highest nonzero digit of the next group written is not
\* its thousands digit (三萬零三百零三) and none when that thousands digit
\* is nonzero, groups left out in between or not (一億一千).  A group that
\* is entirely zero writes neither digits nor its unit: every large unit
\* glyph stands behind a nonzero digit or a smaller unit, and under Low and
\* TenThousand a unit is written exactly when its digits are not all zero.
C21_ZeroConnector ==
  IsGroupedCall =>
    /\ \A i \in 1..Len(Body) :
         /\ (Body[i] = ZeroChar /\ call.value.mag # <<>>) =>
              /\ i > 1 /\ UnitOf(Body[i - 1]) > 0
              /\ i < Len(Body) /\ Body[i + 1] \in DigitChars \ {ZeroChar}
         /\ UnitOf(Body[i]) > 0 =>
              (ZeroFollows(Body, i) <=>
                 /\ BelowUnit(Body, i) # <<>>
                 /\ IF ClosesGroup(Body, i) THEN NumDigits(BelowUnit(Body, i)) % 4 # 0
                    ELSE NumDigits(BelowUnit(Body, i)) < UnitExp(GroupMethod, UnitOf(Body[i])))
         /\ UnitOf(Body[i]) >= 4 =>
              /\ i > 1
              /\ \/ Body[i - 1] \in DigitChars \ {ZeroChar}
                 \/ UnitOf(Body[i - 1]) \in 1..(UnitOf(Body[i]) - 1)
    /\ GroupMethod \in {"Low", "TenThousand"} =>
         \A u \in 4..15 :
           (\E i \in 1..Len(Body) : UnitOf(Body[i]) = u) <=>
             ModPow10(DivPow10(call.value.mag, UnitExp(GroupMethod, u)),
                      IF GroupMethod = "Low" THEN 1 ELSE 4) # <<>>

\* 100001000 under TenThousand: 一億一千, no 零 before a group that starts
\* with its thousands digit
C21_Witness ==
  /\ call.fn = "u32" /\ call.method = "TenThousand"
  /\ call.value.mag = <<1000, 0, 1>>
  /\ buffer = <<19968, 20740, 19968, 21315>>

\* the value of the doc examples under High: 九千零一十二 inside a group,
\* and no 零 before a group
C21_WitnessHigh ==
  /\ IsDocCall("High") /\ buffer = DocHigh
  /\ \E i \in 2..Len(buffer) : buffer[i] = ZeroChar /\ UnitOf(buffer[i - 1]) = 3

----------------------------------------------------------------------------
(* Order of the large units of a parsed string.                            *)

ParserTypes == IntegerTypes \cup FloatTypes

\* the large units (萬 and above) of a string, left to right
LargeUnits(s) ==
  LET large == SelectSeq(s, LAMBDA c : UnitOf(c) >= 4)
  IN [i \in 1..Len(large) |-> UnitOf(large[i])]

StrictlyDecreasing(l) == \A i, j \in 1..Len(l) : i < j => l[i] > l[j]

\* a unit comes again, or a larger one after it, only behind a larger unit:
\* the smaller one then stands in the multiplier of the larger
Nested(l) ==
  \A i, j \in 1..Len(l) :
    (i < j /\ l[i] <= l[j]) => \E k \in (i + 1)..j : l[k] > l[i]

C22_WitnessRefused ==
  /\ call.fn = "literal" /\ buffer = <<19968, 33836, 20740>>
  /\ pcall.fn = "u64" /\ pcall.method = "TenThousand"
  /\ result.tag = "ChineseNumberIncorrect"

----------------------------------------------------------------------------
(* The largest 128-bit values.                                             *)

\* a 128-bit call on a value of magnitude i128::MAX or more: i128::MAX,
\* i128::MIN, u128::MAX
IsWidestCall ==
  call.fn \in {"u128", "i128"} /\ ~Lt(call.value.mag, max_value(128).mag)

\* the largest unit the 128-bit cascader of a method starts from
TopUnit128(method) ==
  CASE method = "Low" -> 15
    [] method = "TenThousand" -> 12
    [] method = "Middle" -> 8
    [] method = "High" -> 7

\* C23 as claimed: a 128-bit value near u128::MAX or i128::MIN cannot be
\* written under TenThousand or Middle (nor under Low), only under High.
C23_AsStated ==
  (IsWidestCall /\ call.method # "High") => buffer = Aborted

\* C23: of the four methods only Low cannot write the largest 128-bit
\* values: for u128::MAX, i128::MAX and i128::MIN the call aborts under Low
\* and writes a numeral under TenThousand, Middle and High, and the numeral
\* read by the ladder of its method is the value.
C23_WidestValues ==
  IsWidestCall =>
    IF call.method = "Low" THEN buffer = Aborted
    ELSE /\ buffer # Aborted
         /\ call.value.neg => buffer[1] \in CHINESE_NEGATIVE_SIGN_CHARS
         /\ chinese_digit_compat(Body, call.method, TopUnit128(call.method), TRUE)
              = ParseOk(call.value.mag)

\* u128::MAX is written under TenThousand, with 澗 (10^36) as its largest unit
C23_Witness ==
  /\ call.fn = "u128" /\ call.method = "TenThousand"
  /\ call.value.mag = max_value_unsigned(128)
  /\ buffer # Aborted /\ LargeUnits(buffer)[1] = 12

----------------------------------------------------------------------------
(* Methods that write the same string.                                     *)

\* the string the entry point of the call writes under another method
WithMethod(method) ==
  from_mut(call.fn, call.variant, call.number_case, method, call.value, <<>>)

\* C24: a 32-bit value is written alike under TenThousand, Middle and High,
\* and a 64-bit value is written alike under Middle and High, in every
\* variant and case.
C24_SameString ==
  /\ (call.fn \in {"u32", "i32"} /\ call.method \in {"TenThousand", "Middle", "High"}) =>
       \A method \in {"TenThousand", "Middle", "High"} : WithMethod(method) = buffer
  /\ (call.fn \in {"u64", "i64"} /\ call.method \in {"Middle", "High"}) =>
       \A method \in {"Middle", "High"} : WithMethod(method) = buffer

\* 2^64 - 1 under Middle is the string of High and not that of TenThousand
C24_Witness ==
  /\ call.fn = "u64" /\ call.method = "Middle"
  /\ call.value.mag = max_value_unsigned(64)
  /\ buffer = WithMethod("High") /\ buffer # WithMethod("TenThousand")
  /\ LargeUnits(buffer) = <<6, 4, 5, 4>>

----------------------------------------------------------------------------
(* Entry points of different widths.                                       *)

UnsignedTypes == {"u8", "u16", "u32", "u64", "u128"}
SignedFormatTypes == {"i8", "i16", "i32", "i64", "i128"}

\* the entry points of the signedness of fn that take the value v
SameSignTypes(fn, v) ==
  IF fn \in UnsignedTypes
  THEN {t \in UnsignedTypes : Lt(v.mag, TwoPow(Width(t)))}
  ELSE IF fn \in SignedFormatTypes
  THEN {t \in SignedFormatTypes :
          Lt(v.mag, TwoPow(Width(t) - 1)) \/ (v.neg /\ v.mag = TwoPow(Width(t) - 1))}
  ELSE {}

\* the methods under which the call's string may be asked of another entry
\* point: the method of the call, or any when the call takes none
MethodsLike(method) == IF method = "None" THEN ChineseNumberCountMethod ELSE {method}

\* C25: the string of a value does not depend on the width of the entry
\* point: every entry point of the same signedness that takes the value
\* writes the string of the call, under the method of the call (under every
\* method when the call is 8- or 16-bit and takes none).
C25_WidthFree ==
  (IsFormatCall /\ Decided /\ pcall = NoCall /\ buffer # Aborted) =>
    \A t \in SameSignTypes(call.fn, call.value) : \A method \in MethodsLike(call.method) :
      from_mut(t, call.variant, call.number_case, method, call.value, <<>>) = buffer

\* -128 written by from_i8: the four wider signed entry points write the
\* same 負一百二十八
C25_Witness ==
  /\ call.fn = "i8" /\ call.value = min_value(8) /\ pcall = NoCall
  /\ SameSignTypes(call.fn, call.value) = SignedFormatTypes
  /\ buffer = from_mut("i128", call.variant, call.number_case, "Low", call.value, <<>>)
  /\ Len(buffer) = 6

----------------------------------------------------------------------------
(* The look-ahead window of the integer parsers.                           *)

\* number of chars an integer parser hands to its grammar helper
WindowOf(fn, method) ==
  CASE fn \in {"i8", "u8"} -> 5
    [] fn \in {"i16", "u16"} -> 15
    [] fn \in {"i32", "u32"} -> IF method = "Low" THEN 19 ELSE 23
    [] fn \in {"i64", "u64"} ->
         IF method = "Low" THEN 31 ELSE IF method = "TenThousand" THEN 39 ELSE 47

\* the input of the parse without its spaces
Stripped == replace_spaces(buffer)

\* 1 when a signed parser is given a negative sign, which the window does
\* not count
SignLen ==
  IF pcall.fn \in SignedTypes /\ Stripped # <<>> /\ Stripped[1] \in CHINESE_NEGATIVE_SIGN_CHARS
  THEN 1 ELSE 0

\* C26: an integer parser accepts no input longer than its window (5, 15,
\* 19 or 23, 31, 39 or 47 chars, after the negative sign of a signed
\* parser), and when the chars of the window alone are accepted by the
\* parser and one more char follows, whatever it is, the answer is
\* ChineseNumberIncorrect with char_index the window size, one more when
\* the input has the negative sign.
C26_Window ==
  (IsParsed /\ pcall.fn \in IntegerTypes) =>
    LET n == WindowOf(pcall.fn, pcall.method) + SignLen
    IN /\ result.tag = "Ok" => Len(Stripped) <= n
       /\ (Len(Stripped) > n
           /\ ParseBy(pcall.fn, pcall.method, SubSeq(Stripped, 1, n)).tag = "Ok") =>
            result = ChineseNumberIncorrect(n)

\* 17999999999999999999 in 39 chars and a 40th: u64 under TenThousand
\* answers index 39
C26_Witness ==
  /\ call.fn = "trailing" /\ pcall.fn = "u64" /\ pcall.method = "TenThousand"
  /\ Len(call.numeral) = 39 /\ LargeUnits(call.numeral) = <<7, 6, 5, 4>>
  /\ parse_chinese_number_to_u64("TenThousand", call.numeral).tag = "Ok"
  /\ result = ChineseNumberIncorrect(39)

\* 負一百二十三 and a 7th char: i8 answers index 6
C26_WitnessSigned ==
  /\ call.fn = "trailing" /\ pcall.fn = "i8"
  /\ call.numeral = <<36000, 19968, 30334, 20108, 21313, 19977>>
  /\ result = ChineseNumberIncorrect(6)

----------------------------------------------------------------------------
(* Characters after a complete numeral.                                    *)

\* C27 as claimed: a successful parse has consumed the whole input: a
\* complete numeral followed by one more character, after 分 as well, is
\* accepted by no parser, integer or float.
C27_WholeInput ==
  (IsParsed /\ call.fn = "trailing" /\ pcall.fn \in ParserTypes) => result.tag # "Ok"

\* the part of C27 that holds: the integer parsers accept no numeral with a
\* character after it, and the float parsers none whose numeral does not end
\* with 分
C27_WholeInputButFen ==
  (IsParsed /\ call.fn = "trailing" /\ pcall.fn \in ParserTypes /\ result.tag = "Ok") =>
    /\ pcall.fn \in FloatTypes
    /\ call.numeral[Len(call.numeral)] \in CHINESE_NUMBERS_FRACTION_CHARS[2]

----------------------------------------------------------------------------
(* The float parser on numerals without fraction.                          *)

\* no 角 and no 分 in s
NoFraction(s) ==
  \A i \in 1..Len(s) :
    s[i] \notin CHINESE_NUMBERS_FRACTION_CHARS[1] \cup CHINESE_NUMBERS_FRACTION_CHARS[2]

\* the call formatted an integer of at most 64 bits of magnitude
IsWritten64 ==
  call.fn \in {"i64", "u64", "i128"} /\ Decided /\ Le(call.value.mag, max_value_unsigned(64))

\* |a - b|
Distance(a, b) == IF Lt(a, b) THEN Sub(b, a) ELSE Sub(a, b)

\* the f64 v is the integer n converted: of its sign, without fraction, n
\* itself below 2^53 and at most half a unit of the last of 53 bits from n
\* above
IsConverted(v, n) ==
  /\ v.bits = 64 /\ v.neg = n.neg /\ v.exp >= 0 /\ BitLen(v.man) <= 53
  /\ IF Lt(n.mag, ShiftLeft(One, 53)) THEN Trunc(v) = n.mag
     ELSE Le(MulSmall(Distance(Trunc(v), n.mag), 2), ShiftLeft(One, BitLen(n.mag) - 53))

\* C28: on an input without 角 and 分 parse to f64 answers what parse to
\* i64 answers under the same method: the same error with the same
\* char_index, or the same integer as a float (rounded to 53 bits, no
\* fraction).  So the numeral of a value above 2^63 - 1 is answered with
\* Overflow and that of a value below -2^63 with Underflow.
C28_FloatAsInteger ==
  (IsParsed /\ pcall.fn = "f64" /\ NoFraction(Stripped)) =>
    /\ result.tag = parse_chinese_number_to_i64(pcall.method, buffer).tag
    /\ result.char_index = parse_chinese_number_to_i64(pcall.method, buffer).char_index
    /\ result.tag = "Ok" =>
         IsConverted(result.value, parse_chinese_number_to_i64(pcall.method, buffer).value)
    /\ IsWritten64 =>
         result.tag = (IF call.value.neg
                       THEN IF Gt(call.value.mag, TwoPow(63)) THEN "Underflow" ELSE "Ok"
                       ELSE IF Lt(call.value.mag, TwoPow(63)) THEN "Ok" ELSE "Overflow")

\* -(2^63 + 1), written by from_i128, is below the range of parse to f64
C28_Witness ==
  /\ call.fn = "i128" /\ pcall.fn = "f64"
  /\ call.value = Signed(TRUE, Add(TwoPow(63), One))
  /\ result = Underflow

\* 2^63 - 1 is read as the float 2^63
C28_WitnessRounded ==
  /\ call.fn = "i64" /\ pcall.fn = "f64"
  /\ call.value = max_value(64)
  /\ result = Ok(Binary(64, FALSE, One, 63))

----------------------------------------------------------------------------
(* Range errors and the negative sign.                                     *)

\* the input of the parse starts with a negative sign
HasSign == Stripped # <<>> /\ Stripped[1] \in CHINESE_NEGATIVE_SIGN_CHARS

\* C29: Underflow is answered only by a signed parser (the float parsers
\* are signed) on an input that starts with a negative sign, Overflow only
\* on an input that does not start with one; an unsigned parser answers an
\* input with negative sign with ChineseNumberIncorrect at index 0, and a
\* signed parser answers a lone negative sign with ChineseNumberIncorrect at
\* index 1.
C29_SignOfRangeError ==
  (IsParsed /\ pcall.fn \in ParserTypes) =>
    /\ result.tag = "Underflow" => (pcall.fn \in SignedTypes \cup FloatTypes /\ HasSign)
    /\ result.tag = "Overflow" => ~HasSign
    /\ (pcall.fn \in IntegerTypes \ SignedTypes /\ HasSign) =>
         result = ChineseNumberIncorrect(0)
    /\ (pcall.fn \in SignedTypes \cup FloatTypes /\ HasSign /\ Len(Stripped) = 1) =>
         result = ChineseNumberIncorrect(1)

\* 負一百二十九, written by from_i16, is below the range of i8
C29_Witness ==
  /\ call.fn = "i16" /\ pcall.fn = "i8"
  /\ call.value = Signed(TRUE, <<129>>)
  /\ HasSign /\ result = Underflow

\* the same string given to u8 is refused at its sign
C29_WitnessUnsigned ==
  /\ call.fn = "i16" /\ pcall.fn = "u8"
  /\ call.value = Signed(TRUE, <<129>>)
  /\ result = ChineseNumberIncorrect(0)

\* a lone 負 given to i64
C29_WitnessLoneSign ==
  /\ call.fn = "literal" /\ buffer = <<36000>> /\ pcall.fn = "i64"
  /\ result = ChineseNumberIncorrect(1)

----------------------------------------------------------------------------
(* The Low method in the 64-bit parsers.                                   *)

\* C30: under Low the 64-bit parsers answer neither Overflow nor Underflow
\* and the negation aborts in no build; every value they return has a
\* magnitude below 10^16, and for an input with negative sign parse to i64
\* returns exactly minus the magnitude that parse to u64 reads behind the
\* sign.
C30_LowInRange ==
  (IsParsed /\ pcall.fn \in {"u64", "i64"} /\ pcall.method = "Low") =>
    /\ result.tag \notin {"Overflow", "Underflow", "Panic"}
    /\ result.tag = "Ok" => Lt(result.value.mag, Pow10(16))
    /\ (pcall.fn = "i64" /\ HasSign /\ result.tag = "Ok") =>
         /\ parse_chinese_number_to_u64("Low", Tail(Stripped)).tag = "Ok"
         /\ result.value.mag = parse_chinese_number_to_u64("Low", Tail(Stripped)).value.mag
         /\ result.value.neg <=> result.value.mag # <<>>

\* -(10^16 - 1), the largest magnitude of Low, read back by parse to i64
C30_Witness ==
  /\ call.fn = "i64" /\ pcall.fn = "i64" /\ pcall.method = "Low"
  /\ call.value = Signed(TRUE, Sub(Pow10(16), One))
  /\ Len(Stripped) = 32
  /\ result = Ok(call.value)

\* 十極, ten times the largest unit of Low, is no numeral
C30_WitnessRefused ==
  /\ call.fn = "literal" /\ buffer = <<21313, 26997>>
  /\ pcall.fn = "u64" /\ pcall.method = "Low"
  /\ result.tag = "ChineseNumberIncorrect"

====
